---------------------------- MODULE Spec2Model ----------------------------
(***************************************************************************)
(* A model of dexsim: the price / tick helpers of dexsim/utils.py, the     *)
(* Pool wrapper of dexsim/pool.py, the liquidity-provider helpers of       *)
(* dexsim/lp.py, the Lender wrapper of dexsim/lender.py and the liquidity  *)
(* formulas of calcliq.py, together with the part of the external ledger   *)
(* (ERC20 tokens, the NFT position manager, the swap router, the lending   *)
(* contract) that the wrappers talk to.                                    *)
(*                                                                         *)
(* Numbers.  Python floats and unbounded ints are modelled as exact        *)
(* numbers  (n / d) * 10^e  held in a record [n, d, e]; the decimal        *)
(* exponent keeps the factor 1e18 of as_18 / from_18 exact without ever    *)
(* expanding it.  Floating-point rounding is modelled where an integer is  *)
(* taken from the result of a float operation and where a balance read as  *)
(* a float decides a guard (see "Floating point" below); elsewhere float   *)
(* results are kept exact.                                                 *)
(*                                                                         *)
(* Prices.  math.sqrt is applied only to prices that are squares of        *)
(* rationals, where it is exact.  math.log(price, 1.0001) is applied to    *)
(* prices given by their logarithm: the price 1.0001^(k / LogScale) is the *)
(* record [pos |-> TRUE, log |-> k]; a price <= 0 is [pos |-> FALSE].      *)
(***************************************************************************)
EXTENDS Integers, Sequences, FiniteSets, TLC

VARIABLES
    call,       \* the last call of a pure helper of utils.py, with its result
    fee,        \* Pool.fee
    balance,    \* ledger: ERC20 balances, [agent -> [token -> wei units]]
    allowance,  \* ledger: ERC20 allowance of the NFT position manager
    positions,  \* ledger: the NFT position manager's positions, by token id
    last,       \* the Pool / lp / Lender call in progress: its inputs, what it sent, its outcome
    lender,     \* the Lender object: which_is_collateral, _testing_price, _testing_price_is_used
    lending,    \* ledger: the lending contract and the balances of its two tokens
    slot0       \* ledger: the square-root price of the pool the lender reads

vars == <<call, fee, balance, allowance, positions, last, lender, lending, slot0>>
lendvars == <<lender, lending, slot0>>

---------------------------------------------------------------------------
(* Bounds of the model *)

MaxRoot == 3        \* square roots of prices are n / d with n, d in 1..MaxRoot
MaxLiq == 1         \* liquidity values 0..MaxLiq
LogScale == 2       \* resolution of a price's logarithm: 1 / LogScale of a tick
TickSpan == 3       \* half-width of the tick windows the helpers are applied to
MaxAmt == 1         \* token amounts (whole tokens) an operation is called with
MaxBal == 1         \* cap on an agent's balance (whole tokens)
MaxPos == 1         \* cap on the number of positions minted
Q96Bits == 3        \* fractional bits of the model's square-root prices (96 in the source)
MaxPoolLiq == 3     \* the pool's in-range liquidity, as read by the price operations
MaxWei == 3         \* balances and swap outputs, in wei, of the price operations
MantBits == 2       \* significant bits of the model's floats (53 in the source)
MaxPosLiq == 7      \* cap on a position's liquidity when it is increased
MaxFracDen == 2     \* percentages of remove_liquidity are n / d with d in 1..MaxFracDen
MaxCalcAmt == 2     \* token amounts the liquidity formulas of calcliq.py are applied to
MinSqrtBits == 2    \* bits of the lowest valid square-root price (32 in the source)
MaxLendAmt == 1     \* token amounts the Lender's methods are called with, and cap on balances
MaxForcedPrice == 1 \* prices set_price_for_testing is called with
MaxSwapWei == 7     \* cap on a balance, in wei, where tokens are swapped

---------------------------------------------------------------------------
(* utils.py: constants *)

\* Q96 = 2**96 in the source.  The model keeps the fixed-point format but
\* with Q96Bits fractional bits, so that its values stay within 32-bit
\* integers; nothing in the code depends on the number of bits.
Q96 == 2^Q96Bits
MIN_TICK == -887272
MAX_TICK == 887272
FEE_RANGE == <<100, 500, 3000, 10000>>
FEE_TICK_SPACING == <<1, 10, 60, 200>>

---------------------------------------------------------------------------
(* Exact numbers (n / d) * 10^e, d > 0 *)

Num(n, d, e) == [n |-> n, d |-> d, e |-> e]
Int2Num(i) == Num(i, 1, 0)

RECURSIVE Pow10(_)
Pow10(k) == IF k = 0 THEN 1 ELSE 10 * Pow10(k - 1)

MinOf(a, b) == IF a <= b THEN a ELSE b

\* the numerator of x once both operands are brought to the exponent m
Scaled(x, m) == x.n * Pow10(x.e - m)

NumLess(x, y) ==
    LET m == MinOf(x.e, y.e) IN Scaled(x, m) * y.d < Scaled(y, m) * x.d

NumEq(x, y) ==
    LET m == MinOf(x.e, y.e) IN Scaled(x, m) * y.d = Scaled(y, m) * x.d

NumLeq(x, y) == NumLess(x, y) \/ NumEq(x, y)

NumMul(x, y) == Num(x.n * y.n, x.d * y.d, x.e + y.e)

NumSub(x, y) ==
    LET m == MinOf(x.e, y.e)
    IN  Num(Scaled(x, m) * y.d - Scaled(y, m) * x.d, x.d * y.d, m)

\* 1 / x for x > 0
NumInv(x) == Num(x.d, x.n, -x.e)

\* int * float
NumMulInt(i, x) == Num(i * x.n, x.d, x.e)

\* Python's int(): truncation toward zero
TruncDiv(a, b) == IF a >= 0 THEN a \div b ELSE -((-a) \div b)

\* Python's int() of a number of exponent 0
int(x) == TruncDiv(x.n, x.d)

\* math.sqrt on the square of a rational (exact there)
ISqrt(x) == CHOOSE r \in 0..x : r * r = x
sqrt(p) == Num(ISqrt(p.n), ISqrt(p.d), 0)

\* the price r^2 of a square root r = n / d
Square(r) == Num(r.n * r.n, r.d * r.d, 0)

---------------------------------------------------------------------------
(* Floating point.  Where the code turns the result of a float operation    *)
(* into an integer (int(liq * percentage), int(liquidity * diff / 2**96),   *)
(* the formulas of calcliq.py) the rounding of the operation decides the    *)
(* integer, and it is modelled: a float is a number m * 2^k with            *)
(* m < 2^MantBits, and an operation returns the float nearest to its exact  *)
(* result, ties going to the even m, as IEEE 754 does with 53 bits.         *)

\* n / d rounded to the nearest integer, ties to even; n >= 0, d > 0
RoundHalfEven(n, d) ==
    LET q == n \div d
        r == n % d
    IN  IF 2 * r < d THEN q
        ELSE IF 2 * r > d THEN q + 1
        ELSE IF q % 2 = 0 THEN q ELSE q + 1

\* the float nearest to n / d; n >= 0, d > 0
RECURSIVE FloatOf(_, _)
FloatOf(n, d) ==
    IF n = 0 THEN Num(0, 1, 0)
    ELSE IF n >= d * 2^MantBits
    THEN LET r == FloatOf(n, 2 * d)
         IN  IF r.d > 1 THEN Num(r.n, r.d \div 2, 0) ELSE Num(2 * r.n, 1, 0)
    ELSE IF n < d * 2^(MantBits - 1)
    THEN LET r == FloatOf(2 * n, d)
         IN  IF r.n % 2 = 0 THEN Num(r.n \div 2, r.d, 0) ELSE Num(r.n, 2 * r.d, 0)
    ELSE Num(RoundHalfEven(n, d), 1, 0)

\* float(x) of an exact number of exponent 0
ToFloat(x) ==
    IF x.n < 0
    THEN LET r == FloatOf(-x.n, x.d) IN Num(-r.n, r.d, 0)
    ELSE FloatOf(x.n, x.d)

\* float * float and float / float, rounded
FloatMul(x, y) == ToFloat(Num(x.n * y.n, x.d * y.d, 0))
FloatDiv(x, y) == ToFloat(Num(x.n * y.d, x.d * y.n, 0))

\* int / int: Python's true division, correctly rounded
TrueDiv(a, b) == ToFloat(Num(a, b, 0))

---------------------------------------------------------------------------
(* utils.py: helpers *)

is_valid_tick_lower_only(tick) == tick >= MIN_TICK

is_valid_tick(tick) == tick >= MIN_TICK /\ tick <= MAX_TICK

\* list.index: the first position holding x
IndexOf(seq, x) ==
    CHOOSE i \in 1..Len(seq) : seq[i] = x /\ \A j \in 1..(i - 1) : seq[j] # x

Elems(seq) == {seq[i] : i \in 1..Len(seq)}

Ok(v) == [ok |-> TRUE, val |-> v]
Raise(e) == [ok |-> FALSE, err |-> e]

get_spacing_for_fee_shifted(f) ==
    IF f \in Elems(FEE_RANGE)
    THEN Ok(FEE_TICK_SPACING[(IndexOf(FEE_RANGE, f) % Len(FEE_TICK_SPACING)) + 1])
    ELSE Raise("AssertionError")

get_spacing_for_fee_default(f) ==
    IF f \in Elems(FEE_RANGE)
    THEN Ok(FEE_TICK_SPACING[IndexOf(FEE_RANGE, f)])
    ELSE Ok(10)

get_spacing_for_fee(f) ==
    IF f \in Elems(FEE_RANGE)
    THEN Ok(FEE_TICK_SPACING[IndexOf(FEE_RANGE, f)])
    ELSE Raise("AssertionError")

get_fee_for_spacing(spacing) ==
    IF spacing \in Elems(FEE_TICK_SPACING)
    THEN Ok(FEE_RANGE[IndexOf(FEE_TICK_SPACING, spacing)])
    ELSE Raise("AssertionError")

as_18(value) ==
    LET e2 == value.e + 18
    IN  IF value.d = 1 /\ e2 >= 0
        THEN Num(value.n, 1, e2)
        ELSE IF e2 > 9
        THEN \* a fraction with a few decimals: exact, the exponent is kept
             LET k == CHOOSE j \in 0..9 :
                          /\ (value.n * Pow10(j)) % value.d = 0
                          /\ \A i \in 0..(j - 1) : (value.n * Pow10(i)) % value.d # 0
             IN  Num((value.n * Pow10(k)) \div value.d, 1, e2 - k)
        ELSE IF e2 >= 0
             THEN Num(TruncDiv(value.n * Pow10(e2), value.d), 1, 0)
             ELSE Num(TruncDiv(value.n, value.d * Pow10(-e2)), 1, 0)

from_18(value) == [value EXCEPT !.e = @ - 18]

\* int(math.sqrt(token1price) * Q96); math.sqrt raises ValueError below zero
price_to_sqrtp(token1price) ==
    IF token1price.n < 0
    THEN Raise("ValueError")
    ELSE LET root == sqrt(token1price)
         IN  Ok(TruncDiv(root.n * Q96, root.d))

\* the square-root price of the lowest valid tick, tick_to_sqrtx96(MIN_TICK) =
\* 4295128739 in the source's format, a little above 2^32.  The model keeps it
\* as MinSqrtBits bits of the Q96Bits-bit format.
MIN_SQRTP == 2^MinSqrtBits

sqrtp_to_price_unsquared(sqrtpvalue) == Num(sqrtpvalue, Q96, 0)

sqrtp_to_price(sqrtpvalue) == Num(sqrtpvalue * sqrtpvalue, Q96 * Q96, 0)

\* a price given by its logarithm to base TICK_BASE, in 1 / LogScale ticks
LogPrice(k) == [pos |-> TRUE, log |-> k]
NonPositivePrice == [pos |-> FALSE]
\* the price TICK_BASE^(t + f / LogScale), 0 <= f < LogScale
PriceAt(t, f) == LogPrice(t * LogScale + f)

tick_to_price_inverted(tick) == PriceAt(-tick, 0)

tick_to_price(tick) == PriceAt(tick, 0)

price_to_tick(token1price) ==
    IF token1price.pos
    THEN Ok(token1price.log \div LogScale)
    ELSE Raise("ValueError")

align_toward_zero(tick, spacing) == TruncDiv(tick, spacing) * spacing

align_up(tick, spacing) == ((tick \div spacing) + 1) * spacing

\* math.floor(tick / spacing) * spacing
align_to_spacing(tick, spacing) == (tick \div spacing) * spacing

price_to_tick_with_spacing(price, spacing) ==
    LET tick == price_to_tick(price)
    IN  IF tick.ok THEN Ok(align_to_spacing(tick.val, spacing)) ELSE tick

\* calculate_liquidity_balance, current_price < lower_price
BelowRange_swapped(liquidity, sqrt_Pa, sqrt_Pb) ==
    <<Int2Num(0), NumMulInt(liquidity, NumSub(sqrt_Pb, sqrt_Pa))>>

BelowRange(liquidity, sqrt_Pa, sqrt_Pb) ==
    <<NumMulInt(liquidity, NumSub(NumInv(sqrt_Pa), NumInv(sqrt_Pb))), Int2Num(0)>>

\* calculate_liquidity_balance, current_price > upper_price
AboveRange(liquidity, sqrt_Pa, sqrt_Pb) ==
    <<Int2Num(0), NumMulInt(liquidity, NumSub(sqrt_Pb, sqrt_Pa))>>

InRange_from_lower(liquidity, sqrt_Pa, sqrt_Pb, sqrt_P) ==
    <<NumMulInt(liquidity, NumSub(NumInv(sqrt_Pa), NumInv(sqrt_Pb))),
      NumMulInt(liquidity, NumSub(sqrt_P, sqrt_Pa))>>

\* calculate_liquidity_balance, lower_price <= current_price <= upper_price
InRange(liquidity, sqrt_Pa, sqrt_Pb, sqrt_P) ==
    <<NumMulInt(liquidity, NumSub(NumInv(sqrt_P), NumInv(sqrt_Pb))),
      NumMulInt(liquidity, NumSub(sqrt_P, sqrt_Pa))>>

calculate_liquidity_balance(liquidity, lower_price, upper_price, current_price) ==
    LET sqrt_Pa == sqrt(lower_price)
        sqrt_Pb == sqrt(upper_price)
        sqrt_P == sqrt(current_price)
        XY == IF NumLess(current_price, lower_price)
              THEN BelowRange(liquidity, sqrt_Pa, sqrt_Pb)
              ELSE IF NumLess(upper_price, current_price)
                   THEN AboveRange(liquidity, sqrt_Pa, sqrt_Pb)
                   ELSE InRange(liquidity, sqrt_Pa, sqrt_Pb, sqrt_P)
    IN  <<from_18(XY[1]), from_18(XY[2])>>

---------------------------------------------------------------------------
(* Inputs the helpers are applied to *)

Roots == {[n |-> n, d |-> d] : n \in 1..MaxRoot, d \in 1..MaxRoot}

\* ticks around 0, around the tick of price 1/5000 (-85177) and around both ends
\* of the valid range
TickCentres == {0, -85177, MIN_TICK, MAX_TICK}
MathTicks == {c + i : c \in TickCentres, i \in (-TickSpan)..TickSpan}
MathPrices == {PriceAt(t, f) : t \in MathTicks, f \in 0..(LogScale - 1)}
               \cup {NonPositivePrice}

\* prices price_to_sqrtp is applied to: the squares of the roots, zero and
\* negative prices
SqrtInputs == {Square(r) : r \in Roots} \cup {Int2Num(0), Int2Num(-1), Num(-1, 4, 0)}

Spacings == Elems(FEE_TICK_SPACING)
FeeInputs == Elems(FEE_RANGE) \cup {0, 1, 10, 99, 101, 501, 2999}
SpacingInputs == Elems(FEE_TICK_SPACING) \cup {0, 2, 59, 100, 500}

---------------------------------------------------------------------------
(* The pure helpers, each applied once to one of its inputs *)

NoCall == [fn |-> "none"]

CallCalculateLiquidityBalance ==
    /\ call = NoCall
    /\ \E L \in 0..MaxLiq, ra \in Roots, rb \in Roots, rc \in Roots :
           call' = [fn |-> "calculate_liquidity_balance",
                    liquidity |-> L, ra |-> ra, rb |-> rb, rc |-> rc,
                    out |-> calculate_liquidity_balance(L, Square(ra), Square(rb), Square(rc))]
    /\ UNCHANGED <<fee, balance, allowance, positions, last, lendvars>>

CallPriceToTickWithSpacing ==
    /\ call = NoCall
    /\ \E p \in MathPrices, s \in Spacings :
           call' = [fn |-> "price_to_tick_with_spacing",
                    price |-> p, spacing |-> s,
                    out |-> price_to_tick_with_spacing(p, s)]
    /\ UNCHANGED <<fee, balance, allowance, positions, last, lendvars>>

\* the alignment step of price_to_tick_with_spacing applied to its own result
CallAlignTwice ==
    /\ call = NoCall
    /\ \E t \in MathTicks, s \in Spacings :
           LET once == align_to_spacing(t, s)
           IN  call' = [fn |-> "align_twice", tick |-> t, spacing |-> s,
                        once |-> once, twice |-> align_to_spacing(once, s)]
    /\ UNCHANGED <<fee, balance, allowance, positions, last, lendvars>>

CallGetSpacingForFee ==
    /\ call = NoCall
    /\ \E f \in FeeInputs :
           call' = [fn |-> "get_spacing_for_fee", arg |-> f, out |-> get_spacing_for_fee(f)]
    /\ UNCHANGED <<fee, balance, allowance, positions, last, lendvars>>

CallGetFeeForSpacing ==
    /\ call = NoCall
    /\ \E s \in SpacingInputs :
           call' = [fn |-> "get_fee_for_spacing", arg |-> s, out |-> get_fee_for_spacing(s)]
    /\ UNCHANGED <<fee, balance, allowance, positions, last, lendvars>>

CallPriceToSqrtp ==
    /\ call = NoCall
    /\ \E p \in SqrtInputs :
           call' = [fn |-> "price_to_sqrtp", price |-> p, out |-> price_to_sqrtp(p)]
    /\ UNCHANGED <<fee, balance, allowance, positions, last, lendvars>>

\* price_to_sqrtp followed by sqrtp_to_price, as the pool's exchange rates read
\* back a price the pool was created with
CallSqrtpRoundTrip ==
    /\ call = NoCall
    /\ \E p \in SqrtInputs :
           LET s == price_to_sqrtp(p)
           IN  call' = [fn |-> "sqrtp_round_trip", price |-> p, sqrtp |-> s,
                        out |-> IF s.ok THEN Ok(sqrtp_to_price(s.val)) ELSE s]
    /\ UNCHANGED <<fee, balance, allowance, positions, last, lendvars>>

\* tick_to_price applied to two ticks
CallTickToPrice ==
    /\ call = NoCall
    /\ \E t1 \in MathTicks, t2 \in MathTicks :
           call' = [fn |-> "tick_to_price", tick1 |-> t1, tick2 |-> t2,
                    out1 |-> tick_to_price(t1), out2 |-> tick_to_price(t2)]
    /\ UNCHANGED <<fee, balance, allowance, positions, last, lendvars>>

---------------------------------------------------------------------------
(* calcliq.py: the liquidity formulas.  amount is a float (1e18, 5000e18 in *)
(* run_basic), pa and pb are integer square-root prices, liq is an integer. *)

IntToFloat(i) == ToFloat(Int2Num(i))

\* Python's min of two floats
MinNum(x, y) == IF NumLess(y, x) THEN y ELSE x

\* (amount * (pa * pb) / Q96) / (pb - pa), pa # pb
liquidity0(amount, pa, pb) ==
    LET a == IF pa > pb THEN pb ELSE pa
        b == IF pa > pb THEN pa ELSE pb
    IN  FloatDiv(FloatDiv(FloatMul(amount, IntToFloat(a * b)), IntToFloat(Q96)),
                 IntToFloat(b - a))

\* amount * Q96 / (pb - pa), pa # pb
liquidity1(amount, pa, pb) ==
    LET a == IF pa > pb THEN pb ELSE pa
        b == IF pa > pb THEN pa ELSE pb
    IN  FloatDiv(FloatMul(amount, IntToFloat(Q96)), IntToFloat(b - a))

\* int(liq * Q96 * (pb - pa) / pa / pb)
calc_amount0(liq, pa, pb) ==
    LET a == IF pa > pb THEN pb ELSE pa
        b == IF pa > pb THEN pa ELSE pb
    IN  int(FloatDiv(TrueDiv(liq * Q96 * (b - a), a), IntToFloat(b)))

\* int(liq * (pb - pa) / Q96)
calc_amount1(liq, pa, pb) ==
    LET a == IF pa > pb THEN pb ELSE pa
        b == IF pa > pb THEN pa ELSE pb
    IN  int(TrueDiv(liq * (b - a), Q96))

\* run_basic, for any amounts and any square-root prices low < cur < upp
CallRunBasic ==
    /\ call = NoCall
    /\ \E a0 \in 1..MaxCalcAmt, a1 \in 1..MaxCalcAmt,
          rl \in Roots, rc \in Roots, ru \in Roots :
           LET sqrtp_low == price_to_sqrtp(Square(rl)).val
               sqrtp_cur == price_to_sqrtp(Square(rc)).val
               sqrtp_upp == price_to_sqrtp(Square(ru)).val
               amount_eth == IntToFloat(a0)
               amount_usdc == IntToFloat(a1)
               liq0 == liquidity0(amount_eth, sqrtp_cur, sqrtp_upp)
               liq1 == liquidity1(amount_usdc, sqrtp_cur, sqrtp_low)
               liq == int(MinNum(liq0, liq1))
           IN  /\ sqrtp_low < sqrtp_cur /\ sqrtp_cur < sqrtp_upp
               /\ call' = [fn |-> "run_basic",
                           amount_eth |-> amount_eth, amount_usdc |-> amount_usdc,
                           sqrtp_low |-> sqrtp_low, sqrtp_cur |-> sqrtp_cur,
                           sqrtp_upp |-> sqrtp_upp,
                           liq0 |-> liq0, liq1 |-> liq1, liq |-> liq,
                           amount0 |-> calc_amount0(liq, sqrtp_upp, sqrtp_cur),
                           amount1 |-> calc_amount1(liq, sqrtp_low, sqrtp_cur)]
    /\ UNCHANGED <<fee, balance, allowance, positions, last, lendvars>>

---------------------------------------------------------------------------
(* The ledger as the wrappers see it.  Token amounts on the ledger are      *)
(* integers of 18 decimals, n * 10^18.  The ledger's contracts (the ERC20   *)
(* tokens, the NFT position manager) are not part of the repository's       *)
(* sources: their reactions are modelled from the interface the wrappers    *)
(* rely on.                                                                 *)

Agents == {"bob"}
Tokens == {0, 1}

Wei(m) == Num(m, 1, 18)

NumAdd(x, y) ==
    LET m == MinOf(x.e, y.e)
    IN  Num(Scaled(x, m) * y.d + Scaled(y, m) * x.d, x.d * y.d, m)

\* the state of the Lender object after __init__ for a pool whose collateral
\* is token w, and of the ledger's lending contract and pool behind it
LendInit(w, s) ==
    /\ lender = [which_is_collateral |-> w, testing_price |-> Wei(0),
                 testing_price_is_used |-> FALSE]
    /\ lending = [price |-> Wei(0),
                  collateral |-> [a \in {"bob", "alice"} |-> Wei(0)],
                  debt |-> [a \in {"bob", "alice"} |-> Wei(0)],
                  cbal |-> [a \in {"bob", "alice"} |-> Wei(0)],
                  lbal |-> [a \in {"bob", "alice"} |-> Wei(0)]]
    /\ slot0 = s

ApproveTx(agent, token, amount) ==
    [fn |-> "approve", caller |-> agent, token |-> token, amount |-> amount]

MintTx(agent, f, tl, tu, amount0, amount1) ==
    [fn |-> "mint", caller |-> agent, fee |-> f, tl |-> tl, tu |-> tu,
     amount0 |-> amount0, amount1 |-> amount1]

\* the ledger's tick spacing of a fee tier (factory.feeAmountTickSpacing)
LedgerSpacing(f) == FEE_TICK_SPACING[IndexOf(FEE_RANGE, f)]

\* whether the position manager's mint goes through: an ordered, aligned range
\* within the tick bounds, and something to deposit
LedgerMintAccepts(f, tl, tu, amount0, amount1) ==
    /\ tl < tu
    /\ tl >= MIN_TICK /\ tu <= MAX_TICK
    /\ tl % LedgerSpacing(f) = 0 /\ tu % LedgerSpacing(f) = 0
    /\ (amount0.n > 0 \/ amount1.n > 0)

\* prices the pool operations are called with: 1/4900 and 1/5100 (logarithms
\* -84974.15 and -85374.23 ticks), the price of MIN_TICK, prices just
\* outside both ends of the tick range, and a price <= 0
Price_1_4900 == PriceAt(-84975, LogScale - 1)
Price_1_5100 == PriceAt(-85375, LogScale - 1)
PoolPrices == {Price_1_4900, Price_1_5100,
               PriceAt(MIN_TICK, 0), PriceAt(MIN_TICK - 1, 0),
               PriceAt(MAX_TICK + 1, 0), NonPositivePrice}

---------------------------------------------------------------------------
(* pool.py: Pool *)

\* no call in progress
NoOp == [op |-> "none", sent |-> <<>>, outcome |-> "none"]

\* a call is over: its result, and the record of what it sent, go to the caller
Return ==
    /\ last # NoOp
    /\ last' = NoOp
    /\ UNCHANGED <<call, fee, balance, allowance, positions, lendvars>>

\* the pool contract's address, holder of the reserves
PoolAddress == "pool"

\* the wallets of the ledger
Wallets == DOMAIN balance \ {PoolAddress}

\* Pool.mint_tokens
MintTokens ==
    \E agent \in Wallets, amt_t0 \in 0..MaxAmt, amt_t1 \in 0..MaxAmt :
        LET at0 == as_18(Int2Num(amt_t0))
            at1 == as_18(Int2Num(amt_t1))
        IN  /\ last = NoOp
            /\ balance[agent][0].n + amt_t0 <= MaxBal
            /\ balance[agent][1].n + amt_t1 <= MaxBal
            /\ balance' = [balance EXCEPT ![agent] =
                              [t \in Tokens |->
                                  NumAdd(balance[agent][t], IF t = 0 THEN at0 ELSE at1)]]
            /\ last' = [op |-> "mint_tokens", agent |-> agent,
                        sent |-> <<[fn |-> "erc20.mint", caller |-> agent, token |-> 0, amount |-> at0],
                                   [fn |-> "erc20.mint", caller |-> agent, token |-> 1, amount |-> at1]>>,
                        outcome |-> "ok"]
            /\ UNCHANGED <<call, fee, allowance, positions, lendvars>>

\* what burn_tokens burns of one token: the amount asked, if it is positive
\* and the balance covers it
burn_amount_unchecked(at, bal) == at

burn_amount(at, bal) == IF at.n > 0 /\ NumLeq(at, bal) THEN at ELSE Wei(0)

\* the amounts burn_tokens is called with
BurnAmounts == (-1)..(MaxBal + 1)

\* Pool.burn_tokens
BurnTokens ==
    \E agent \in Wallets, amt_t0 \in BurnAmounts, amt_t1 \in BurnAmounts :
        LET at0 == as_18(Int2Num(amt_t0))
            at1 == as_18(Int2Num(amt_t1))
            burnt0 == burn_amount(at0, balance[agent][0])
            burnt1 == burn_amount(at1, balance[agent][1])
            tx(t, amount) == [fn |-> "erc20.burn", caller |-> agent, token |-> t,
                              amount |-> amount]
        IN  /\ last = NoOp
            /\ balance' = [balance EXCEPT ![agent] =
                              [t \in Tokens |->
                                  NumSub(balance[agent][t], IF t = 0 THEN burnt0 ELSE burnt1)]]
            /\ last' = [op |-> "burn_tokens", agent |-> agent,
                        amt_t0 |-> amt_t0, amt_t1 |-> amt_t1,
                        sent |-> (IF burnt0.n # 0 THEN <<tx(0, burnt0)>> ELSE <<>>)
                                  \o (IF burnt1.n # 0 THEN <<tx(1, burnt1)>> ELSE <<>>),
                        outcome |-> "ok"]
            /\ UNCHANGED <<call, fee, allowance, positions, lendvars>>

sort_ticks_unsorted(lt, ht) == <<lt, ht>>

\* mint_liquidity_position: "sort for negative integers"
sort_ticks(lt, ht) == IF lt > ht THEN <<ht, lt>> ELSE <<lt, ht>>

\* mint_liquidity_position up to the sorted tick pair: the spacing of the
\* pool's fee, both prices converted, both ticks validated, then sorted
mint_ticks(f, low_price, high_price) ==
    LET spacing == get_spacing_for_fee(f)
    IN  IF ~spacing.ok THEN Raise(spacing.err)
        ELSE LET lt == price_to_tick_with_spacing(low_price, spacing.val)
             IN  IF ~lt.ok THEN Raise(lt.err)
                 ELSE LET ht == price_to_tick_with_spacing(high_price, spacing.val)
                      IN  IF ~ht.ok THEN Raise(ht.err)
                          ELSE IF ~is_valid_tick(lt.val) THEN Raise("not a valid tick")
                          ELSE IF ~is_valid_tick(ht.val) THEN Raise("not a valid tick")
                          ELSE Ok(sort_ticks(lt.val, ht.val))

\* the ledger after a mint that went through: the deposit leaves the agent's
\* balance and allowance, and a new position is recorded
AfterMint(agent, tl, tu, approved, used0, used1, liq) ==
    /\ balance' = [balance EXCEPT
                      ![agent][0] = NumSub(@, used0), ![agent][1] = NumSub(@, used1)]
    /\ allowance' = [allowance EXCEPT
                      ![agent][0] = NumSub(approved[1], used0),
                      ![agent][1] = NumSub(approved[2], used1)]
    /\ positions' = Append(positions,
                           [owner |-> agent, fee |-> fee, tl |-> tl, tu |-> tu,
                            liquidity |-> liq, owed0 |-> Wei(0), owed1 |-> Wei(0)])

\* Pool.mint_liquidity_position
MintLiquidityPosition ==
    /\ last = NoOp
    /\ Len(positions) < MaxPos
    /\ \E agent \in Agents, token0_amount \in 0..MaxAmt, token1_amount \in 0..MaxAmt,
          low_price \in PoolPrices, high_price \in PoolPrices :
        LET T == mint_ticks(fee, low_price, high_price)
            t0amt == as_18(Int2Num(token0_amount))
            t1amt == as_18(Int2Num(token1_amount))
            bal0 == balance[agent][0]
            bal1 == balance[agent][1]
            this == [op |-> "mint_liquidity_position", agent |-> agent,
                     low_price |-> low_price, high_price |-> high_price]
            approvals == <<ApproveTx(agent, 0, t0amt), ApproveTx(agent, 1, t1amt)>>
        IN  /\ UNCHANGED <<call, fee, lendvars>>
            /\ IF ~T.ok
               THEN /\ last' = this @@ [sent |-> <<>>, outcome |-> "raised", err |-> T.err]
                    /\ UNCHANGED <<balance, allowance, positions>>
               ELSE IF ~(NumLeq(t0amt, bal0) /\ NumLeq(t1amt, bal1))
               THEN /\ last' = this @@ [sent |-> <<>>, outcome |-> "raised",
                                        err |-> "Insufficient token balance"]
                    /\ UNCHANGED <<balance, allowance, positions>>
               ELSE LET lowtick == T.val[1]
                        hightick == T.val[2]
                        sent == Append(approvals,
                                       MintTx(agent, fee, lowtick, hightick, t0amt, t1amt))
                    IN  IF LedgerMintAccepts(fee, lowtick, hightick, t0amt, t1amt)
                        THEN \E a0 \in 0..token0_amount, a1 \in 0..token1_amount,
                                liq \in 1..MaxLiq :
                                /\ a0 + a1 > 0
                                /\ AfterMint(agent, lowtick, hightick, <<t0amt, t1amt>>,
                                             Wei(a0), Wei(a1), liq)
                                /\ last' = this @@
                                      [sent |-> sent, outcome |-> "ok",
                                       ret |-> <<from_18(Wei(a0)), from_18(Wei(a1)), liq,
                                                 Len(positions) + 1>>]
                        ELSE /\ allowance' = [allowance EXCEPT ![agent][0] = t0amt,
                                                               ![agent][1] = t1amt]
                             /\ last' = this @@ [sent |-> sent, outcome |-> "reverted"]
                             /\ UNCHANGED <<balance, positions>>

---------------------------------------------------------------------------
(* pool.py: Pool.increase_liquidity and Pool.remove_liquidity *)

\* token ids the operations are called with: the minted ones and one more
TokenIds == 1..(MaxPos + 1)

\* percentages remove_liquidity is called with: negative, zero, within (0, 1]
\* and above 1
Percentages == {ToFloat(Num(n, d, 0)) : n \in (-1)..(MaxFracDen + 1), d \in 1..MaxFracDen}

IncreaseTx(agent, token_id, amount0, amount1) ==
    [fn |-> "increaseLiquidity", caller |-> agent, token_id |-> token_id,
     amount0 |-> amount0, amount1 |-> amount1]

DecreaseTx(agent, token_id, liquidity) ==
    [fn |-> "decreaseLiquidity", caller |-> agent, token_id |-> token_id,
     liquidity |-> liquidity]

CollectTx(agent, token_id, recipient, amount0, amount1) ==
    [fn |-> "collect", caller |-> agent, token_id |-> token_id,
     recipient |-> recipient, amount0 |-> amount0, amount1 |-> amount1]

\* the position manager knows the token id (positions.call reverts otherwise)
LedgerHasPosition(token_id) == token_id \in 1..Len(positions)

\* whether the position manager's decreaseLiquidity goes through: a positive
\* liquidity, at most the position's
LedgerDecreaseAccepts(token_id, liquidity) ==
    /\ LedgerHasPosition(token_id)
    /\ liquidity > 0
    /\ liquidity <= positions[token_id].liquidity

\* the positions after a decreaseLiquidity that went through: the liquidity
\* leaves the position and the tokens it stood for are owed to the owner
AfterDecrease(token_id, liquidity, owed0, owed1) ==
    [positions EXCEPT ![token_id].liquidity = @ - liquidity,
                      ![token_id].owed0 = NumAdd(@, owed0),
                      ![token_id].owed1 = NumAdd(@, owed1)]

\* whether the position manager's collect goes through: something is asked for
LedgerCollectAccepts(amount0, amount1) == amount0.n > 0 \/ amount1.n > 0

\* what a collect that went through pays out: the amount asked for, at most
\* the amount owed
Collected(owed, asked) == IF NumLeq(asked, owed) THEN asked ELSE owed

valid_percentage_allows_zero(percentage) ==
    NumLeq(Int2Num(0), percentage) /\ NumLeq(percentage, Int2Num(1))

\* remove_liquidity: percentage > 0 and percentage <= 1
valid_percentage(percentage) ==
    NumLess(Int2Num(0), percentage) /\ NumLeq(percentage, Int2Num(1))

\* remove_liquidity: int(liq * percentage), an int times a float
liquidity_to_remove(liq, percentage) ==
    int(FloatMul(ToFloat(Int2Num(liq)), percentage))

tokens_owed_stale(before, after) == <<before.owed0, before.owed1>>

\* remove_liquidity: the tokens owed, read from the position once
\* decreaseLiquidity has been sent
tokens_owed(before, after) == <<after.owed0, after.owed1>>

\* Pool.increase_liquidity
IncreaseLiquidity ==
    /\ last = NoOp
    /\ \E agent \in Agents, token_id \in TokenIds,
          amount0 \in 0..MaxAmt, amount1 \in 0..MaxAmt :
        LET amt0 == as_18(Int2Num(amount0))
            amt1 == as_18(Int2Num(amount1))
            this == [op |-> "increase_liquidity", agent |-> agent, token_id |-> token_id]
            sent == <<ApproveTx(agent, 0, amt0), ApproveTx(agent, 1, amt1),
                      IncreaseTx(agent, token_id, amt0, amt1)>>
        IN  /\ UNCHANGED <<call, fee, lendvars>>
            /\ \/ \E a0 \in 0..amount0, a1 \in 0..amount1, liq \in 1..MaxPosLiq :
                     /\ LedgerHasPosition(token_id)
                     /\ a0 + a1 > 0
                     /\ NumLeq(Wei(a0), balance[agent][0])
                     /\ NumLeq(Wei(a1), balance[agent][1])
                     /\ positions[token_id].liquidity + liq <= MaxPosLiq
                     /\ positions' = [positions EXCEPT ![token_id].liquidity = @ + liq]
                     /\ balance' = [balance EXCEPT ![agent][0] = NumSub(@, Wei(a0)),
                                                   ![agent][1] = NumSub(@, Wei(a1))]
                     /\ allowance' = [allowance EXCEPT ![agent][0] = NumSub(amt0, Wei(a0)),
                                                       ![agent][1] = NumSub(amt1, Wei(a1))]
                     /\ last' = this @@
                           [sent |-> sent, outcome |-> "ok",
                            ret |-> <<liq, from_18(Wei(a0)), from_18(Wei(a1))>>]
               \/ /\ \/ ~LedgerHasPosition(token_id)
                      \/ amount0 + amount1 = 0
                      \/ ~NumLeq(amt0, balance[agent][0])
                      \/ ~NumLeq(amt1, balance[agent][1])
                  /\ allowance' = [allowance EXCEPT ![agent][0] = amt0, ![agent][1] = amt1]
                  /\ last' = this @@ [sent |-> sent, outcome |-> "reverted"]
                  /\ UNCHANGED <<balance, positions>>

\* Pool.remove_liquidity
RemoveLiquidity ==
    /\ last = NoOp
    /\ \E agent \in Agents, token_id \in TokenIds, percentage \in Percentages :
        LET this == [op |-> "remove_liquidity", agent |-> agent, token_id |-> token_id,
                     percentage |-> percentage]
        IN  /\ UNCHANGED <<call, fee, allowance, lendvars>>
            /\ IF ~valid_percentage(percentage)
               THEN /\ last' = this @@ [sent |-> <<>>, outcome |-> "raised",
                                        err |-> "invalid percentage"]
                    /\ UNCHANGED <<balance, positions>>
               ELSE IF ~LedgerHasPosition(token_id)
               THEN /\ last' = this @@ [sent |-> <<>>, outcome |-> "reverted"]
                    /\ UNCHANGED <<balance, positions>>
               ELSE
                 LET liq == positions[token_id].liquidity
                     amount == liquidity_to_remove(liq, percentage)
                     decrease == DecreaseTx(agent, token_id, amount)
                 IN  IF ~LedgerDecreaseAccepts(token_id, amount)
                     THEN /\ last' = this @@ [liq |-> liq, sent |-> <<decrease>>,
                                              outcome |-> "reverted"]
                          /\ UNCHANGED <<balance, positions>>
                     ELSE \E d0 \in 0..MaxAmt, d1 \in 0..MaxAmt :
                       LET decreased == AfterDecrease(token_id, amount, Wei(d0), Wei(d1))
                           owed == tokens_owed(positions[token_id], decreased[token_id])
                           collect == CollectTx(agent, token_id, agent, owed[1], owed[2])
                           amt0 == Collected(decreased[token_id].owed0, owed[1])
                           amt1 == Collected(decreased[token_id].owed1, owed[2])
                       IN  /\ balance[agent][0].n + d0 <= MaxBal
                           /\ balance[agent][1].n + d1 <= MaxBal
                           /\ IF LedgerCollectAccepts(owed[1], owed[2])
                              THEN /\ positions' =
                                        [decreased EXCEPT
                                            ![token_id].owed0 = NumSub(@, amt0),
                                            ![token_id].owed1 = NumSub(@, amt1)]
                                   /\ balance' =
                                        [balance EXCEPT
                                            ![agent][0] = NumAdd(@, amt0),
                                            ![agent][1] = NumAdd(@, amt1)]
                                   /\ last' = this @@
                                        [liq |-> liq, sent |-> <<decrease, collect>>,
                                         outcome |-> "ok",
                                         ret |-> <<from_18(amt0), from_18(amt1)>>]
                              ELSE /\ positions' = decreased
                                   /\ last' = this @@
                                        [liq |-> liq, sent |-> <<decrease, collect>>,
                                         outcome |-> "reverted"]
                                   /\ UNCHANGED balance

---------------------------------------------------------------------------
(* pool.py: swaps and the price-targeting operations.  The pool contract's  *)
(* in-range liquidity and current square-root price are read from the       *)
(* ledger at each call; the operations are modelled for every pair of       *)
(* values the two reads can return.                                         *)

\* square-root prices slot0 can hold: those of the squares of the roots
SqrtPrices == {price_to_sqrtp(Square(r)).val : r \in Roots}

RouterApproveTx(agent, token, amount) ==
    [fn |-> "approve", spender |-> "router", caller |-> agent, token |-> token,
     amount |-> amount]

SwapTx(agent, token_in, token_out, f, amount_in) ==
    [fn |-> "exactInputSingle", caller |-> agent, token_in |-> token_in,
     token_out |-> token_out, fee |-> f, recipient |-> agent, amount_in |-> amount_in]

\* from_18(bal) of token_pair_balance: bal / 1e18, a float division, rounded
token_pair_balance(bal) ==
    [ToFloat(Num(bal.n, bal.d, 0)) EXCEPT !.e = bal.e - 18]

\* the router's exactInputSingle takes amount_in from the caller's balance and
\* reverts when the balance does not cover it
LedgerSwapAccepts(bal, amount_in) == NumLeq(amount_in, bal)

\* swap_0_for_1 / swap_1_for_0: the balance check, the approval of the router,
\* the swap.  The router takes amount_in of the input token, which uses up
\* the approval, and pays the agent some amount of the output token.
Swap(this, agent, amount, token_in, token_out) ==
    LET b == token_pair_balance(balance[agent][token_in])
        amount_in == as_18(amount)
        sent == <<RouterApproveTx(agent, token_in, amount_in),
                  SwapTx(agent, token_in, token_out, fee, amount_in)>>
    IN  IF ~NumLeq(amount, b)
        THEN /\ last' = this @@ [sent |-> <<>>, outcome |-> "raised",
                                 err |-> "insufficient balance!"]
             /\ UNCHANGED balance
        ELSE IF ~LedgerSwapAccepts(balance[agent][token_in], amount_in)
        THEN /\ last' = this @@ [sent |-> sent, outcome |-> "raised",
                                 err |-> "RuntimeError"]
             /\ UNCHANGED balance
        ELSE \E out \in 0..MaxWei :
                /\ balance[agent][token_out].n + out <= MaxSwapWei
                /\ balance' = [balance EXCEPT
                                  ![agent][token_in] = NumSub(@, amount_in),
                                  ![agent][token_out] = NumAdd(@, Int2Num(out))]
                /\ last' = this @@
                      [sent |-> sent, outcome |-> "ok",
                       ret |-> <<from_18(amount_in), from_18(Int2Num(out))>>]

swap_0_for_1(this, amount, agent) == Swap(this, agent, amount, 0, 1)

swap_1_for_0_reversed(this, amount, agent) == Swap(this, agent, amount, 0, 1)

swap_1_for_0(this, amount, agent) == Swap(this, agent, amount, 1, 0)

\* the amounts the swaps are called with: floats of a few 1e-18 tokens
SwapAmounts ==
    {[ToFloat(Int2Num(k)) EXCEPT !.e = -18] : k \in 1..(MaxSwapWei + 1)}

\* Pool.swap_0_for_1
Swap0For1 ==
    /\ last = NoOp
    /\ \E agent \in Agents, amount \in SwapAmounts :
          swap_0_for_1([op |-> "swap_0_for_1", agent |-> agent, amount |-> amount],
                       amount, agent)
    /\ UNCHANGED <<call, fee, allowance, positions, lendvars>>

\* Pool.swap_1_for_0
Swap1For0 ==
    /\ last = NoOp
    /\ \E agent \in Agents, amount \in SwapAmounts :
          swap_1_for_0([op |-> "swap_1_for_0", agent |-> agent, amount |-> amount],
                       amount, agent)
    /\ UNCHANGED <<call, fee, allowance, positions, lendvars>>

can_increase_any(target, current) == TRUE

\* increase_price_of_token0: assert target > current
can_increase(target, current) == target > current

\* decrease_price_of_token0: assert current > target
can_decrease(target, current) == current > target

\* int(liquidity * diff / 2**96): an exact product, a true division, int()
amount_to_swap(liquidity, diff) == int(TrueDiv(liquidity * diff, Q96))

\* Pool.increase_price_of_token0
IncreasePriceOfToken0 ==
    /\ last = NoOp
    /\ \E agent \in Agents, target_price \in SqrtInputs,
          liquidity \in 0..MaxPoolLiq, current \in SqrtPrices :
        LET target == price_to_sqrtp(target_price)
            this == [op |-> "increase_price_of_token0", agent |-> agent,
                     liquidity |-> liquidity, current |-> current]
        IN  IF ~target.ok
            THEN /\ last' = this @@ [sent |-> <<>>, outcome |-> "raised", err |-> target.err]
                 /\ UNCHANGED balance
            ELSE IF ~can_increase(target.val, current)
            THEN /\ last' = this @@ [target |-> target.val, sent |-> <<>>,
                                     outcome |-> "raised", err |-> "AssertionError"]
                 /\ UNCHANGED balance
            ELSE LET diff == target.val - current
                     amount_t1_to_swap == amount_to_swap(liquidity, diff)
                     computed == this @@ [target |-> target.val,
                                          amount |-> amount_t1_to_swap]
                 IN  IF amount_t1_to_swap <= 0
                     THEN /\ last' = computed @@
                                [sent |-> <<>>, outcome |-> "ok",
                                 ret |-> <<Int2Num(0), Int2Num(0)>>]
                          /\ UNCHANGED balance
                     ELSE swap_1_for_0(computed, from_18(Int2Num(amount_t1_to_swap)), agent)
    /\ UNCHANGED <<call, fee, allowance, positions, lendvars>>

\* Pool.decrease_price_of_token0
DecreasePriceOfToken0 ==
    /\ last = NoOp
    /\ \E agent \in Agents, target_price \in SqrtInputs,
          liquidity \in 0..MaxPoolLiq, current \in SqrtPrices :
        LET target == price_to_sqrtp(target_price)
            this == [op |-> "decrease_price_of_token0", agent |-> agent,
                     liquidity |-> liquidity, current |-> current]
        IN  IF ~target.ok
            THEN /\ last' = this @@ [sent |-> <<>>, outcome |-> "raised", err |-> target.err]
                 /\ UNCHANGED balance
            ELSE IF ~can_decrease(target.val, current)
            THEN /\ last' = this @@ [target |-> target.val, sent |-> <<>>,
                                     outcome |-> "raised", err |-> "AssertionError"]
                 /\ UNCHANGED balance
            ELSE LET diff == current - target.val
                     amount_t0_to_swap == amount_to_swap(liquidity, diff)
                     computed == this @@ [target |-> target.val,
                                          amount |-> amount_t0_to_swap]
                 IN  IF amount_t0_to_swap <= 0
                     THEN /\ last' = computed @@
                                [sent |-> <<>>, outcome |-> "ok",
                                 ret |-> <<Int2Num(0), Int2Num(0)>>]
                          /\ UNCHANGED balance
                     ELSE swap_0_for_1(computed, from_18(Int2Num(amount_t0_to_swap)), agent)
    /\ UNCHANGED <<call, fee, allowance, positions, lendvars>>

---------------------------------------------------------------------------
(* lp.py: liquidity-provider strategies *)

\* the factors 1 - band and 1 + band of a band, by their logarithms: the default
\* band 0.05 (0.95 is -512.96 ticks, 1.05 is 487.93 ticks) and the band 1.0,
\* whose lower factor is 0 (2.0 is 6931.82 ticks)
PriceFactors == {[down |-> PriceAt(-513, 0), up |-> PriceAt(487, LogScale - 1)],
                 [down |-> NonPositivePrice, up |-> PriceAt(6931, LogScale - 1)]}

\* price * factor, factor >= 0
PriceMul(price, factor) ==
    IF price.pos /\ factor.pos
    THEN LogPrice(price.log + factor.log)
    ELSE NonPositivePrice

\* lp.__mint_liquidity: the balance check, the approvals (sent twice), the mint
MintLiquidity(this, agent, token0_amount, token1_amount, low_tick, high_tick) ==
    LET t0amt == as_18(Int2Num(token0_amount))
        t1amt == as_18(Int2Num(token1_amount))
        bal0 == balance[agent][0]
        bal1 == balance[agent][1]
        approvals == <<ApproveTx(agent, 0, t0amt), ApproveTx(agent, 1, t1amt),
                       ApproveTx(agent, 0, t0amt), ApproveTx(agent, 1, t1amt)>>
        sent == Append(approvals, MintTx(agent, fee, low_tick, high_tick, t0amt, t1amt))
    IN  IF ~(NumLeq(t0amt, bal0) /\ NumLeq(t1amt, bal1))
        THEN /\ last' = this @@ [sent |-> <<>>, outcome |-> "raised",
                                 err |-> "Insufficient token balance"]
             /\ UNCHANGED <<balance, allowance, positions>>
        ELSE IF LedgerMintAccepts(fee, low_tick, high_tick, t0amt, t1amt)
        THEN \E a0 \in 0..token0_amount, a1 \in 0..token1_amount, liq \in 1..MaxLiq :
                /\ a0 + a1 > 0
                /\ AfterMint(agent, low_tick, high_tick, <<t0amt, t1amt>>,
                             Wei(a0), Wei(a1), liq)
                /\ last' = this @@
                      [sent |-> sent, outcome |-> "ok",
                       ret |-> <<from_18(Wei(a0)), from_18(Wei(a1)), liq,
                                 Len(positions) + 1>>]
        ELSE /\ allowance' = [allowance EXCEPT ![agent][0] = t0amt,
                                               ![agent][1] = t1amt]
             /\ last' = this @@ [sent |-> sent, outcome |-> "reverted"]
             /\ UNCHANGED <<balance, positions>>

\* lp.full_range_liquidity
FullRangeLiquidity ==
    /\ last = NoOp
    /\ Len(positions) < MaxPos
    /\ \E agent \in Agents, token0_amount \in 0..MaxAmt, token1_amount \in 0..MaxAmt :
          MintLiquidity([op |-> "full_range_liquidity", agent |-> agent],
                        agent, token0_amount, token1_amount, MIN_TICK, MAX_TICK)
    /\ UNCHANGED <<call, fee, lendvars>>

\* lp.tight_band_liquidity
TightBandLiquidity ==
    /\ last = NoOp
    /\ Len(positions) < MaxPos
    /\ \E agent \in Agents, token0_amount \in 0..MaxAmt, token1_amount \in 0..MaxAmt,
          price_point \in PoolPrices, band \in PriceFactors :
          LET low_price == PriceMul(price_point, band.down)
              high_price == PriceMul(price_point, band.up)
              spacing == get_spacing_for_fee(fee)
              low_tick == price_to_tick_with_spacing(low_price, spacing.val)
              high_tick == price_to_tick_with_spacing(high_price, spacing.val)
              this == [op |-> "tight_band_liquidity", agent |-> agent,
                       price_point |-> price_point]
          IN  IF ~spacing.ok \/ ~low_tick.ok \/ ~high_tick.ok
              THEN /\ last' = this @@
                         [sent |-> <<>>, outcome |-> "raised",
                          err |-> IF ~spacing.ok THEN spacing.err
                                  ELSE IF ~low_tick.ok THEN low_tick.err
                                  ELSE high_tick.err]
                   /\ UNCHANGED <<balance, allowance, positions>>
              ELSE MintLiquidity(this, agent, token0_amount, token1_amount,
                                 low_tick.val, high_tick.val)
    /\ UNCHANGED <<call, fee, lendvars>>

-------------------------------------------------------------------------------------------------------------------
(* lender.py: the Lender wrapper and, behind it, the lending contract.     *)
(* Amounts held by the contract and the tokens are in 18 decimals; the     *)
(* collateral price is the amount of collateral one lending token is worth *)
(* (0.0002 WETH per USDC in test_lender.py), in 18 decimals.               *)

Borrowers == {"bob"}
Liquidators == {"alice"}

\* the amounts the Lender's methods are called with
LendAmounts == 1..MaxLendAmt

\* the pool's square-root prices: the prices 1/4, 1 and 4
LendSqrtPrices == {Q96 \div 2, Q96, 2 * Q96}

SetPriceTx(price) == [fn |-> "setPrice", caller |-> "deployer", price |-> price]

LendApproveTx(agent, token, amount) ==
    [fn |-> "approve", spender |-> "lending_contract", caller |-> agent,
     token |-> token, amount |-> amount]

LendTx(name, agent, arg) == [fn |-> name, caller |-> agent, arg |-> arg]

\* collateralNeeded: the collateral a debt of `amount` requires at `price`,
\* 125% of its value (2.5 WETH for 10000 USDC at 0.0002), in tokens
LedgerCollateralNeeded(amount, price) ==
    NumMul(NumMul(from_18(amount), from_18(price)), Num(5, 4, 0))

\* the health flag of loanInformation: the collateral covers what the debt
\* requires at the contract's price
LedgerHealthy(collateral, debt, price) ==
    NumLeq(LedgerCollateralNeeded(debt, price), from_18(collateral))

\* loanInformation.call(agent): collateral, debt, health flag
LedgerLoanInformation(L, agent) ==
    <<L.collateral[agent], L.debt[agent],
      LedgerHealthy(L.collateral[agent], L.debt[agent], L.price)>>

\* supplyCollateral moves the tokens from the caller to the contract
LedgerSupplyAccepts(L, agent, amount) == NumLeq(amount, L.cbal[agent])
LedgerSupply(L, agent, amount) ==
    [L EXCEPT !.cbal[agent] = NumSub(@, amount),
              !.collateral[agent] = NumAdd(@, amount)]

\* borrow: one loan per borrower, covered by the collateral supplied
LedgerBorrowAccepts(L, agent, amount) ==
    /\ L.debt[agent].n = 0
    /\ amount.n > 0
    /\ LedgerHealthy(L.collateral[agent], amount, L.price)
LedgerBorrow(L, agent, amount) ==
    [L EXCEPT !.debt[agent] = amount, !.lbal[agent] = NumAdd(@, amount)]

\* withdrawCollateral: only without an outstanding loan; all the collateral
\* goes back to the caller's token balance
LedgerWithdrawAccepts(L, agent) == L.debt[agent].n = 0
LedgerWithdraw(L, agent) ==
    [L EXCEPT !.cbal[agent] = NumAdd(@, L.collateral[agent]),
              !.collateral[agent] = Wei(0)]

\* repayLoan: the caller pays towards the debt; a loan paid in full gives the
\* collateral back
LedgerRepayAccepts(L, agent, amount) ==
    /\ L.debt[agent].n > 0
    /\ NumLeq(amount, L.debt[agent])
    /\ NumLeq(amount, L.lbal[agent])
LedgerRepay(L, agent, amount) ==
    LET rest == NumSub(L.debt[agent], amount)
    IN  IF rest.n = 0
        THEN [L EXCEPT !.debt[agent] = Wei(0),
                       !.lbal[agent] = NumSub(@, amount),
                       !.cbal[agent] = NumAdd(@, L.collateral[agent]),
                       !.collateral[agent] = Wei(0)]
        ELSE [L EXCEPT !.debt[agent] = rest, !.lbal[agent] = NumSub(@, amount)]

\* liquidateLoan: only an unhealthy loan; the liquidator pays the debt and
\* takes the collateral, and the loan is cleared
LedgerLiquidateAccepts(L, borrower, liquidator) ==
    /\ L.debt[borrower].n > 0
    /\ ~LedgerHealthy(L.collateral[borrower], L.debt[borrower], L.price)
    /\ NumLeq(L.debt[borrower], L.lbal[liquidator])
LedgerLiquidate(L, borrower, liquidator) ==
    [L EXCEPT !.lbal[liquidator] = NumSub(@, L.debt[borrower]),
              !.cbal[liquidator] = NumAdd(@, L.collateral[borrower]),
              !.debt[borrower] = Wei(0),
              !.collateral[borrower] = Wei(0)]

\* a transaction the contract reverts raises RuntimeError in the caller
transact_swallowed(accepted) == "ok"

transact(accepted) == IF accepted THEN "ok" ELSE "raised"

\* Lender._update_collateral_price: the price sent to the contract
update_collateral_price_unforced(this, sqrtPriceX96) ==
    LET p == sqrtp_to_price(sqrtPriceX96)
    IN  IF this.which_is_collateral = 0 THEN as_18(NumInv(p)) ELSE as_18(p)

update_collateral_price(this, sqrtPriceX96) ==
    IF this.testing_price_is_used
    THEN this.testing_price
    ELSE LET p == sqrtp_to_price(sqrtPriceX96)
         IN  IF this.which_is_collateral = 0 THEN as_18(NumInv(p)) ELSE as_18(p)

\* the contract once _update_collateral_price is through
Updated == [lending EXCEPT !.price = update_collateral_price(lender, slot0)]
UpdateTx == SetPriceTx(update_collateral_price(lender, slot0))

LendRaise(this, sent) ==
    this @@ [sent |-> sent, outcome |-> "raised", err |-> "RuntimeError"]
LendOk(this, sent, ret) ==
    this @@ [sent |-> sent, outcome |-> "ok", ret |-> ret]

\* Lender.set_price_for_testing
SetPriceForTesting ==
    \E price \in 1..MaxForcedPrice :
        /\ last = NoOp
        /\ lender' = [lender EXCEPT !.testing_price = as_18(Int2Num(price)),
                                    !.testing_price_is_used = TRUE]
        /\ last' = LendOk([op |-> "set_price_for_testing", price |-> price], <<>>, "None")
        /\ UNCHANGED <<call, fee, balance, allowance, positions, lending, slot0>>

\* Lender.clear_price_for_testing: the price is reset, then the assignment
\* to self.self._testing_price_is_used raises AttributeError
ClearPriceForTesting ==
    /\ last = NoOp
    /\ lender' = [lender EXCEPT !.testing_price = Wei(0)]
    /\ last' = [op |-> "clear_price_for_testing", sent |-> <<>>,
                outcome |-> "raised", err |-> "AttributeError"]
    /\ UNCHANGED <<call, fee, balance, allowance, positions, lending, slot0>>

\* Lender.mint_collateral_token
MintCollateralToken ==
    \E agent \in Borrowers, amount \in LendAmounts :
        LET amt18 == as_18(Int2Num(amount))
        IN  /\ last = NoOp
            \* the collateral tokens in existence stay within the cap
            /\ lending.cbal["bob"].n + lending.cbal["alice"].n
                 + lending.collateral["bob"].n + lending.collateral["alice"].n
                 + amount <= MaxLendAmt
            /\ lending' = [lending EXCEPT !.cbal[agent] = NumAdd(@, amt18)]
            /\ last' = LendOk([op |-> "mint_collateral_token", agent |-> agent,
                               amount |-> amount],
                              <<[fn |-> "erc20.mint", caller |-> agent,
                                 token |-> "collateral", amount |-> amt18]>>, "None")
            /\ UNCHANGED <<call, fee, balance, allowance, positions, lender, slot0>>

\* Lender.mint_lending_token
MintLendingToken ==
    \E agent \in Liquidators, amount \in LendAmounts :
        LET amt18 == as_18(Int2Num(amount))
        IN  /\ last = NoOp
            /\ lending.lbal[agent].n + amount <= MaxLendAmt
            /\ lending' = [lending EXCEPT !.lbal[agent] = NumAdd(@, amt18)]
            /\ last' = LendOk([op |-> "mint_lending_token", agent |-> agent,
                               amount |-> amount],
                              <<[fn |-> "erc20.mint", caller |-> agent,
                                 token |-> "lending", amount |-> amt18]>>, "None")
            /\ UNCHANGED <<call, fee, balance, allowance, positions, lender, slot0>>

\* Lender.provide_collateral
ProvideCollateral ==
    \E agent \in Borrowers, amount \in LendAmounts :
        LET amt18 == as_18(Int2Num(amount))
            this == [op |-> "provide_collateral", agent |-> agent, amount |-> amount]
            sent == <<LendApproveTx(agent, "collateral", amt18),
                      LendTx("supplyCollateral", agent, amt18)>>
            accepted == LedgerSupplyAccepts(lending, agent, amt18)
        IN  /\ last = NoOp
            /\ IF transact(accepted) = "ok"
               THEN /\ lending' = IF accepted THEN LedgerSupply(lending, agent, amt18)
                                  ELSE lending
                    /\ last' = LendOk(this, sent, "None")
               ELSE /\ lending' = lending
                    /\ last' = LendRaise(this, sent)
            /\ UNCHANGED <<call, fee, balance, allowance, positions, lender, slot0>>

\* Lender.borrow
Borrow ==
    \E agent \in Borrowers, amount \in LendAmounts :
        LET amt18 == as_18(Int2Num(amount))
            this == [op |-> "borrow", agent |-> agent, amount |-> amount]
            sent == <<UpdateTx, LendTx("borrow", agent, amt18)>>
            accepted == LedgerBorrowAccepts(Updated, agent, amt18)
        IN  /\ last = NoOp
            /\ lending.lbal[agent].n + amount <= MaxLendAmt
            /\ IF transact(accepted) = "ok"
               THEN /\ lending' = IF accepted THEN LedgerBorrow(Updated, agent, amt18)
                                  ELSE Updated
                    /\ last' = LendOk(this, sent, TRUE)
               ELSE /\ lending' = Updated
                    /\ last' = LendRaise(this, sent)
            /\ UNCHANGED <<call, fee, balance, allowance, positions, lender, slot0>>

\* Lender.withdraw_collateral
WithdrawCollateral ==
    \E agent \in Borrowers :
        LET this == [op |-> "withdraw_collateral", agent |-> agent]
            sent == <<LendTx("withdrawCollateral", agent, "None")>>
            accepted == LedgerWithdrawAccepts(lending, agent)
        IN  /\ last = NoOp
            /\ IF transact(accepted) = "ok"
               THEN /\ lending' = IF accepted THEN LedgerWithdraw(lending, agent)
                                  ELSE lending
                    /\ last' = LendOk(this, sent, TRUE)
               ELSE /\ lending' = lending
                    /\ last' = LendRaise(this, sent)
            /\ UNCHANGED <<call, fee, balance, allowance, positions, lender, slot0>>

\* Lender.repay_loan
RepayLoan ==
    \E agent \in Borrowers, amount \in LendAmounts :
        LET amt18 == as_18(Int2Num(amount))
            this == [op |-> "repay_loan", agent |-> agent, amount |-> amount]
            sent == <<LendApproveTx(agent, "lending", amt18),
                      LendTx("repayLoan", agent, amt18)>>
            accepted == LedgerRepayAccepts(lending, agent, amt18)
        IN  /\ last = NoOp
            /\ IF transact(accepted) = "ok"
               THEN /\ lending' = IF accepted THEN LedgerRepay(lending, agent, amt18)
                                  ELSE lending
                    /\ last' = LendOk(this, sent, "None")
               ELSE /\ lending' = lending
                    /\ last' = LendRaise(this, sent)
            /\ UNCHANGED <<call, fee, balance, allowance, positions, lender, slot0>>

\* Lender.loan_information: the price is refreshed, then the contract is read
loan_information(agent) == LedgerLoanInformation(Updated, agent)

\* Lender.is_loan_healthy: the contract is read as it is
is_loan_healthy(borrower) == LedgerLoanInformation(lending, borrower)[3]

\* Lender.liquidate_loan
LiquidateLoan ==
    \E borrower \in Borrowers, liquidator \in Liquidators :
        LET info == loan_information(borrower)
            amount == info[2]
            amt18 == as_18(amount)
            this == [op |-> "liquidate_loan", borrower |-> borrower,
                     liquidator |-> liquidator, info |-> info]
            sent == <<UpdateTx, LendApproveTx(liquidator, "lending", amt18),
                      LendTx("liquidateLoan", liquidator, borrower)>>
            accepted == LedgerLiquidateAccepts(Updated, borrower, liquidator)
        IN  /\ last = NoOp
            /\ IF transact(accepted) = "ok"
               THEN /\ lending' = IF accepted
                                  THEN LedgerLiquidate(Updated, borrower, liquidator)
                                  ELSE Updated
                    /\ last' = LendOk(this, sent, TRUE)
               ELSE /\ lending' = Updated
                    /\ last' = LendRaise(this, sent)
            /\ UNCHANGED <<call, fee, balance, allowance, positions, lender, slot0>>

\* Lender.loan_information
LoanInformation ==
    \E agent \in Borrowers :
        /\ last = NoOp
        /\ lending' = Updated
        /\ last' = LendOk([op |-> "loan_information", agent |-> agent],
                          <<UpdateTx, LendTx("loanInformation", "none", agent)>>,
                          loan_information(agent))
        /\ UNCHANGED <<call, fee, balance, allowance, positions, lender, slot0>>

\* Lender.collateral_required
CollateralRequired ==
    \E amount \in LendAmounts :
        LET amt18 == as_18(Int2Num(amount))
        IN  /\ last = NoOp
            /\ lending' = Updated
            /\ last' = LendOk([op |-> "collateral_required", amount |-> amount],
                              <<UpdateTx, LendTx("collateralNeeded", "none", amt18)>>,
                              from_18(as_18(LedgerCollateralNeeded(amt18, Updated.price))))
            /\ UNCHANGED <<call, fee, balance, allowance, positions, lender, slot0>>

\* Lender.get_collateral_price
GetCollateralPrice ==
    /\ last = NoOp
    /\ lending' = Updated
    /\ last' = LendOk([op |-> "get_collateral_price"],
                      <<UpdateTx, LendTx("getCurrentCollateralPrice", "none", "None")>>,
                      Updated.price)
    /\ UNCHANGED <<call, fee, balance, allowance, positions, lender, slot0>>

\* Lender.is_loan_healthy
IsLoanHealthy ==
    \E borrower \in Borrowers :
        /\ last = NoOp
        /\ last' = LendOk([op |-> "is_loan_healthy", borrower |-> borrower],
                          <<LendTx("loanInformation", "none", borrower)>>,
                          is_loan_healthy(borrower))
        /\ UNCHANGED <<call, fee, balance, allowance, positions, lender, lending, slot0>>

\* swaps in the pool move its price
PoolPriceMoves ==
    /\ last = NoOp
    /\ slot0' \in LendSqrtPrices \ {slot0}
    /\ UNCHANGED <<call, fee, balance, allowance, positions, last, lender, lending>>

-----------------------------------
(* Specifications *)

\* the state after DEX.__init__: a pool of one of the fee tiers, no tokens
\* minted, nothing approved, no position
Init ==
    /\ call = NoCall
    /\ LendInit(1, Q96)
    /\ fee \in Elems(FEE_RANGE)
    /\ balance = [a \in Agents |-> [t \in Tokens |-> Wei(0)]]
    /\ allowance = [a \in Agents |-> [t \in Tokens |-> Wei(0)]]
    /\ positions = <<>>
    /\ last = NoOp

\* one of the pure helpers of utils.py applied once, to any of its inputs
NextMath ==
    \/ CallCalculateLiquidityBalance
    \/ CallPriceToTickWithSpacing
    \/ CallAlignTwice
    \/ CallGetSpacingForFee
    \/ CallGetFeeForSpacing
    \/ CallPriceToSqrtp
    \/ CallRunBasic
    \/ CallSqrtpRoundTrip
    \/ CallTickToPrice

SpecMath == Init /\ [][NextMath]_vars

\* the operations of Pool and lp
Next ==
    \/ MintTokens
    \/ MintLiquidityPosition
    \/ FullRangeLiquidity
    \/ TightBandLiquidity
    \/ Return

Spec == Init /\ [][Next]_vars

\* the state after mint_tokens and a mint_liquidity_position that went
\* through: one position over the range of the prices 1/4900 and 1/5100
InitLiq ==
    /\ call = NoCall
    /\ LendInit(1, Q96)
    /\ fee \in Elems(FEE_RANGE)
    /\ \E b0 \in 0..MaxBal, b1 \in 0..MaxBal :
          balance = [a \in Agents |-> [t \in Tokens |-> IF t = 0 THEN Wei(b0) ELSE Wei(b1)]]
    /\ allowance = [a \in Agents |-> [t \in Tokens |-> Wei(0)]]
    /\ \E liq \in 1..MaxLiq :
          LET T == mint_ticks(fee, Price_1_4900, Price_1_5100).val
          IN  positions = <<[owner |-> "bob", fee |-> fee, tl |-> T[1], tu |-> T[2],
                             liquidity |-> liq, owed0 |-> Wei(0), owed1 |-> Wei(0)]>>
    /\ last = NoOp

\* a position's liquidity increased and removed
NextLiq ==
    \/ IncreaseLiquidity
    \/ RemoveLiquidity
    \/ Return

SpecLiq == InitLiq /\ [][NextLiq]_vars

\* the state after mint_tokens of a few wei of each token, on the fee-100
\* pool of test_move_prices.py
InitPrice ==
    /\ call = NoCall
    /\ LendInit(1, Q96)
    /\ fee = FEE_RANGE[1]
    /\ \E b0 \in 0..MaxWei, b1 \in 0..MaxWei :
          balance = [a \in Agents |->
                        [t \in Tokens |-> IF t = 0 THEN Int2Num(b0) ELSE Int2Num(b1)]]
    /\ allowance = [a \in Agents |-> [t \in Tokens |-> Wei(0)]]
    /\ positions = <<>>
    /\ last = NoOp

\* the price-targeting operations
NextPrice ==
    \/ IncreasePriceOfToken0
    \/ DecreasePriceOfToken0
    \/ Return

SpecPrice == InitPrice /\ [][NextPrice]_vars

\* the state after mint_tokens of a few wei of token 0 and none of token 1,
\* as bob is given in test_swaps, on the fee-100 pool
InitSwap ==
    /\ call = NoCall
    /\ LendInit(1, Q96)
    /\ fee = FEE_RANGE[1]
    /\ \E b0 \in 0..MaxSwapWei :
          balance = [a \in Agents |->
                        [t \in Tokens |-> IF t = 0 THEN Int2Num(b0) ELSE Int2Num(0)]]
    /\ allowance = [a \in Agents |-> [t \in Tokens |-> Wei(0)]]
    /\ positions = <<>>
    /\ last = NoOp

\* the swaps
NextSwap ==
    \/ Swap0For1
    \/ Swap1For0
    \/ Return

SpecSwap == InitSwap /\ [][NextSwap]_vars

\* the state after DEX.__init__ with two wallets created and a pool holding
\* some reserves
InitTok ==
    /\ call = NoCall
    /\ LendInit(1, Q96)
    /\ fee \in Elems(FEE_RANGE)
    /\ \E r \in 0..MaxBal :
          balance = [a \in {"bob", "alice", PoolAddress} |->
                        [t \in Tokens |-> IF a = PoolAddress THEN Wei(r) ELSE Wei(0)]]
    /\ allowance = [a \in Agents |-> [t \in Tokens |-> Wei(0)]]
    /\ positions = <<>>
    /\ last = NoOp

\* tokens minted and burnt
NextTok ==
    \/ MintTokens
    \/ BurnTokens
    \/ Return

SpecTok == InitTok /\ [][NextTok]_vars

\* the state after DEX.__init__ with a lending pool configured on the fee-500
\* pool, for either choice of the collateral token
InitLend ==
    /\ call = NoCall
    /\ \E w \in Tokens, s \in LendSqrtPrices : LendInit(w, s)
    /\ fee = FEE_RANGE[2]
    /\ balance = [a \in Agents |-> [t \in Tokens |-> Wei(0)]]
    /\ allowance = [a \in Agents |-> [t \in Tokens |-> Wei(0)]]
    /\ positions = <<>>
    /\ last = NoOp

\* the operations of Lender, and the pool's price moving under it
NextLend ==
    \/ SetPriceForTesting
    \/ ClearPriceForTesting
    \/ MintCollateralToken
    \/ MintLendingToken
    \/ ProvideCollateral
    \/ Borrow
    \/ WithdrawCollateral
    \/ RepayLoan
    \/ LiquidateLoan
    \/ LoanInformation
    \/ CollateralRequired
    \/ GetCollateralPrice
    \/ IsLoanHealthy
    \/ PoolPriceMoves
    \/ Return

SpecLend == InitLend /\ [][NextLend]_vars

---------------------------------------------------------------------------
(* Properties of the pure helpers, under SpecMath *)

IsBalanceCall == call.fn = "calculate_liquidity_balance"

\* x * 10^18 as a number of exponent 0
Times1e18(x) == Num(x.n, x.d, x.e + 18)

\* the order of two positive square roots (and so of their prices)
RootLess(r, q) == r.n * q.d < q.n * r.d
RootEq(r, q) == r.n * q.d = q.n * r.d

\* L * (1/sqrt(lo) - 1/sqrt(hi)) and L * (sqrt(hi) - sqrt(lo)) from the roots
Amount0Between(L, lo, hi) == Num(L * (lo.d * hi.n - hi.d * lo.n), lo.n * hi.n, 0)
Amount1Between(L, lo, hi) == Num(L * (hi.n * lo.d - lo.n * hi.d), hi.d * lo.d, 0)

\* C1: calculate_liquidity_balance(L, lower, upper, current) with lower <= upper
\* follows three regimes: below the range the position is all asset 0,
\* amount0 = L * (1/sqrt(lower) - 1/sqrt(upper)) and amount1 = 0; above it, all
\* asset 1, amount0 = 0 and amount1 = L * (sqrt(upper) - sqrt(lower)); otherwise
\* amount0 = L * (1/sqrt(current) - 1/sqrt(upper)) and
\* amount1 = L * (sqrt(current) - sqrt(lower)); both are returned divided by 1e18.
C1_ThreeRegimes ==
    (IsBalanceCall /\ ~RootLess(call.rb, call.ra)) =>
        LET L == call.liquidity
            a == call.ra
            b == call.rb
            c == call.rc
            X == Times1e18(call.out[1])
            Y == Times1e18(call.out[2])
        IN  IF RootLess(c, a)
            THEN NumEq(X, Amount0Between(L, a, b)) /\ NumEq(Y, Int2Num(0))
            ELSE IF RootLess(b, c)
            THEN NumEq(X, Int2Num(0)) /\ NumEq(Y, Amount1Between(L, a, b))
            ELSE NumEq(X, Amount0Between(L, c, b)) /\ NumEq(Y, Amount1Between(L, a, c))

\* an in-range call holding both assets
C1_Witness ==
    /\ IsBalanceCall
    /\ RootLess(call.ra, call.rc) /\ RootLess(call.rc, call.rb)
    /\ call.liquidity > 0
    /\ call.out[1].n > 0 /\ call.out[2].n > 0
    /\ call.out[1].e = -18

\* C2: the reserves are continuous at both ends of the range: for lower < upper,
\* at current = lower the result is the below-range value (amount1 = 0,
\* amount0 = L * (1/sqrt(lower) - 1/sqrt(upper))), and at current = upper it is
\* the above-range value (amount0 = 0, amount1 = L * (sqrt(upper) - sqrt(lower))).
C2_ContinuousAtBounds ==
    (IsBalanceCall /\ RootLess(call.ra, call.rb)) =>
        LET L == call.liquidity
            X == Times1e18(call.out[1])
            Y == Times1e18(call.out[2])
        IN  /\ RootEq(call.rc, call.ra) =>
                  /\ NumEq(Y, Int2Num(0))
                  /\ NumEq(X, Amount0Between(L, call.ra, call.rb))
            /\ RootEq(call.rc, call.rb) =>
                  /\ NumEq(X, Int2Num(0))
                  /\ NumEq(Y, Amount1Between(L, call.ra, call.rb))

\* a call at the upper bound of a proper range, with liquidity
C2_Witness ==
    /\ IsBalanceCall
    /\ RootLess(call.ra, call.rb) /\ RootEq(call.rc, call.rb)
    /\ call.liquidity > 0
    /\ call.out[1].n = 0 /\ call.out[2].n > 0

IsAlignCall == call.fn = "price_to_tick_with_spacing" /\ call.price.pos

\* C3: tick alignment rounds toward negative infinity: for every tick t, negative
\* ticks included, and spacing s in {1, 10, 60, 200} the aligned tick is a
\* multiple of s with aligned <= t < aligned + s; tick -85177 with spacing 10
\* aligns to -85180, not -85170.
C3_AlignsTowardMinusInfinity ==
    IsAlignCall =>
        /\ call.out.ok
        /\ LET aligned == call.out.val
               s == call.spacing
           IN  /\ aligned % s = 0
               \* aligned <= t < aligned + s for the tick t with
               \* t <= log(price) < t + 1
               /\ aligned * LogScale <= call.price.log
               /\ call.price.log < (aligned + s) * LogScale
               /\ (call.price \in {PriceAt(-85177, f) : f \in 0..(LogScale - 1)}
                     /\ s = 10) => aligned = -85180

\* the price 1/5000 (tick -85177) aligned to spacing 10
C3_Witness ==
    /\ IsAlignCall
    /\ call.price = PriceAt(-85177, 0)
    /\ call.spacing = 10
    /\ call.out = Ok(-85180)

\* C4: tick alignment is idempotent: aligning an already aligned tick returns it
\* unchanged.
C4_AlignIdempotent ==
    call.fn = "align_twice" => call.twice = call.once

\* a negative, unaligned tick aligned twice
C4_Witness ==
    /\ call.fn = "align_twice"
    /\ call.tick < 0
    /\ call.tick % call.spacing # 0
    /\ call.once < call.tick
    /\ call.twice = call.once

\* C9: fee tiers and tick spacings are bound 1:1: get_spacing_for_fee maps
\* 100 -> 1, 500 -> 10, 3000 -> 60, 10000 -> 200, get_fee_for_spacing is its
\* inverse, and both round trips return the value they started from.
C9_FeeSpacingBijection ==
    LET SpacingOf == (100 :> 1) @@ (500 :> 10) @@ (3000 :> 60) @@ (10000 :> 200)
        FeeOf == (1 :> 100) @@ (10 :> 500) @@ (60 :> 3000) @@ (200 :> 10000)
    IN  /\ (call.fn = "get_spacing_for_fee" /\ call.arg \in DOMAIN SpacingOf) =>
              /\ call.out = Ok(SpacingOf[call.arg])
              /\ get_fee_for_spacing(call.out.val) = Ok(call.arg)
        /\ (call.fn = "get_fee_for_spacing" /\ call.arg \in DOMAIN FeeOf) =>
              /\ call.out = Ok(FeeOf[call.arg])
              /\ get_spacing_for_fee(call.out.val) = Ok(call.arg)

\* the 0.3% tier looked up
C9_Witness ==
    /\ call.fn = "get_spacing_for_fee"
    /\ call.arg = 3000
    /\ call.out = Ok(60)

\* C10: get_spacing_for_fee fails for every fee outside {100, 500, 3000, 10000}
\* and get_fee_for_spacing fails for every spacing outside {1, 10, 60, 200};
\* neither returns a value.
C10_UnknownTierFails ==
    /\ (call.fn = "get_spacing_for_fee" /\ call.arg \notin {100, 500, 3000, 10000}) =>
          (~call.out.ok /\ "val" \notin DOMAIN call.out)
    /\ (call.fn = "get_fee_for_spacing" /\ call.arg \notin {1, 10, 60, 200}) =>
          (~call.out.ok /\ "val" \notin DOMAIN call.out)

\* a spacing passed where a fee is expected
C10_Witness ==
    /\ call.fn = "get_spacing_for_fee"
    /\ call.arg = 10
    /\ ~call.out.ok

\* C11: price_to_sqrtp returns floor(sqrt(price) * 2^96) for price > 0 and fails
\* with a domain error, producing no output, for every price <= 0, zero
\* included.
C11_SqrtpFloorOrDomainError ==
    call.fn = "price_to_sqrtp" =>
        LET p == call.price
        IN  IF p.n > 0
            THEN /\ call.out.ok
                 \* v = floor(sqrt(p) * Q96): v^2 <= p * Q96^2 < (v + 1)^2
                 /\ LET v == call.out.val
                    IN  /\ v >= 0
                        /\ v * v * p.d <= p.n * Q96 * Q96
                        /\ p.n * Q96 * Q96 < (v + 1) * (v + 1) * p.d
            ELSE ~call.out.ok /\ "val" \notin DOMAIN call.out

\* C20: mint-time liquidity is the minimum of the two candidate liquidities,
\* and the amounts computed back from it truncate and never exceed what was
\* supplied: for all amount0, amount1 > 0 and square-root prices low < cur < upp,
\* with L = int(min(liquidity0(amount0, cur, upp), liquidity1(amount1, cur, low))),
\* calc_amount0(L, upp, cur) <= amount0 and calc_amount1(L, low, cur) <= amount1.
C20_AmountsWithinSupplied ==
    call.fn = "run_basic" =>
        /\ NumLeq(Int2Num(call.liq), call.liq0)
        /\ NumLeq(Int2Num(call.liq), call.liq1)
        /\ NumLeq(Int2Num(call.amount0), call.amount_eth)
        /\ NumLeq(Int2Num(call.amount1), call.amount_usdc)

\* a price of the pool's range: its square-root price is at least that of the
\* lowest valid tick
IsValidPriceRoundTrip ==
    /\ call.fn = "sqrtp_round_trip"
    /\ call.price.n > 0
    /\ call.sqrtp.ok
    /\ call.sqrtp.val >= MIN_SQRTP

AbsNum(x) == IF x.n < 0 THEN Num(-x.n, x.d, x.e) ELSE x

PriceLess(p, q) == p.pos /\ q.pos /\ p.log < q.log

---------------------------------------------------------------------------
(* Properties of Pool.mint_liquidity_position and the lp strategies, under Spec *)

\* the mint transactions an operation sent to the position manager
SentMints(l) == {l.sent[i] : i \in {j \in 1..Len(l.sent) : l.sent[j].fn = "mint"}}

PoolSpacing == (100 :> 1) @@ (500 :> 10) @@ (3000 :> 60) @@ (10000 :> 200)

\* x is the tick of price p aligned to spacing s: a multiple of s with
\* x <= log(p) < x + s
IsAlignedTickOf(p, s, x) ==
    /\ p.pos
    /\ x % s = 0
    /\ x * LogScale <= p.log
    /\ p.log < (x + s) * LogScale

\* the tick of a positive price aligned to the pool's spacing
AlignedTick(p) ==
    LET s == PoolSpacing[fee]
    IN  ((p.log \div LogScale) \div s) * s

IsMintPositionCall(l) ==
    /\ l.op = "mint_liquidity_position"
    /\ l.low_price.pos /\ l.high_price.pos

\* C5: mint_liquidity_position converts the two prices to aligned ticks
\* independently and sorts the resulting ticks: the (lower, upper) ticks sent to
\* the ledger's mint are (min(a, b), max(a, b)) of the two aligned ticks; prices
\* 1/4900 and 1/5100 on a spacing-10 pool give (-85380, -84980).
C5_SortsResultingTicks ==
    last.op = "mint_liquidity_position" =>
        \A tx \in SentMints(last) :
            LET s == PoolSpacing[fee]
                lo == last.low_price
                hi == last.high_price
            IN  /\ tx.tl <= tx.tu
                /\ \/ IsAlignedTickOf(lo, s, tx.tl) /\ IsAlignedTickOf(hi, s, tx.tu)
                   \/ IsAlignedTickOf(hi, s, tx.tl) /\ IsAlignedTickOf(lo, s, tx.tu)
                /\ ({lo, hi} = {Price_1_4900, Price_1_5100} /\ fee = 500) =>
                      (tx.tl = -85380 /\ tx.tu = -84980)

\* the mint of test_usdc_weth_liquidity: the higher price given first
C5_Witness ==
    /\ last.op = "mint_liquidity_position"
    /\ last.low_price = Price_1_4900 /\ last.high_price = Price_1_5100
    /\ fee = 500
    /\ last.outcome = "ok"
    /\ \E tx \in SentMints(last) : tx.tl = -85380 /\ tx.tu = -84980

\* C6: when the two prices align to the same tick, mint_liquidity_position
\* rejects the request before any approve or mint transaction is sent.
C6_RejectsEmptyRange ==
    (IsMintPositionCall(last)
        /\ AlignedTick(last.low_price) = AlignedTick(last.high_price)) =>
        (last.outcome = "raised" /\ last.sent = <<>>)

\* C7: every tick range a mint operation (mint_liquidity_position,
\* full_range_liquidity, tight_band_liquidity) sends to the ledger has both
\* ticks aligned to the spacing of the pool's fee tier and within
\* [MIN_TICK, MAX_TICK] = [-887272, 887272].
C7_SentTicksAlignedAndValid ==
    \A tx \in SentMints(last) :
        /\ tx.tl % PoolSpacing[fee] = 0 /\ tx.tu % PoolSpacing[fee] = 0
        /\ -887272 <= tx.tl /\ tx.tl <= 887272
        /\ -887272 <= tx.tu /\ tx.tu <= 887272

OutOfTickRange(t) == t < -887272 \/ t > 887272

HasInvalidTick(l) ==
    /\ IsMintPositionCall(l)
    /\ OutOfTickRange(AlignedTick(l.low_price)) \/ OutOfTickRange(AlignedTick(l.high_price))

\* C8: mint_liquidity_position rejects a tick outside [MIN_TICK, MAX_TICK]
\* immediately: if either aligned tick is below -887272 or above 887272 it
\* raises, no approve or mint transaction is issued, and the ledger's
\* allowances, balances and positions are unchanged.
C8_InvalidTickRejected ==
    [][HasInvalidTick(last') =>
          /\ last'.outcome = "raised"
          /\ last'.sent = <<>>
          /\ UNCHANGED <<balance, allowance, positions>>]_vars

\* a funded agent's mint rejected for its tick
C8_Witness ==
    /\ HasInvalidTick(last)
    /\ last.outcome = "raised" /\ last.err = "not a valid tick"
    /\ balance[last.agent][0].n > 0 /\ balance[last.agent][1].n > 0

---------------------------------------------------------------------------
(* Properties of Pool.remove_liquidity and Pool.increase_liquidity, under SpecLiq *)

IsRemove(l) == l.op = "remove_liquidity"

\* a fraction n / d (d > 0) outside (0, 1]
FractionOutOfRange(f) == f.n <= 0 \/ f.n > f.d

\* C12: remove_liquidity accepts a fraction only in (0, 1]: for fraction <= 0 or
\* fraction > 1 it fails before any ledger transaction (no decreaseLiquidity, no
\* collect), leaving the position's liquidity and the token balances unchanged.
C12_InvalidFractionRejected ==
    [][(IsRemove(last') /\ FractionOutOfRange(last'.percentage)) =>
          /\ last'.outcome = "raised"
          /\ last'.sent = <<>>
          /\ UNCHANGED <<positions, balance>>]_vars

\* 150% of a position with liquidity asked for
C12_Witness ==
    /\ IsRemove(last)
    /\ last.percentage = Num(3, 2, 0)
    /\ last.outcome = "raised" /\ last.err = "invalid percentage"
    /\ last.token_id = 1 /\ positions[1].liquidity > 0

\* C13: after remove_liquidity(token_id, fraction) on a position with liquidity
\* L and fraction in (0, 1], the position's new liquidity is L * (1 - fraction)
\* truncated to an integer.
C13_NewLiquidityTruncated ==
    (IsRemove(last) /\ last.outcome = "ok") =>
        LET f == last.percentage
        IN  positions[last.token_id].liquidity = TruncDiv(last.liq * (f.d - f.n), f.d)

\* C14: a position's liquidity never shrinks below zero: whatever the sequence
\* of increase_liquidity and remove_liquidity calls on a minted position, the
\* liquidity remove_liquidity asks the ledger to remove is at most the
\* position's current liquidity, and the stored liquidity stays >= 0.
C14_LiquidityNeverNegative ==
    /\ \A i \in 1..Len(positions) : positions[i].liquidity >= 0
    /\ IsRemove(last) =>
          \A j \in 1..Len(last.sent) :
              last.sent[j].fn = "decreaseLiquidity" =>
                  /\ last.sent[j].liquidity >= 0
                  /\ last.sent[j].liquidity <= last.liq

\* C15: remove_liquidity realizes the decrease in a fixed order: decreaseLiquidity
\* first, then the read of the position's tokens owed, then collect to the agent
\* for exactly those amounts; a successful call never returns while amounts owed
\* by the decrease remain uncollected.
C15_DecreaseThenCollectOwed ==
    IsRemove(last) =>
        LET n == Len(last.sent)
        IN  /\ last.outcome = "ok" => n = 2
            /\ n >= 1 => /\ last.sent[1].fn = "decreaseLiquidity"
                          /\ last.sent[1].token_id = last.token_id
            /\ n >= 2 =>
                  LET collect == last.sent[2]
                      pos == positions[last.token_id]
                  IN  /\ n = 2
                      /\ collect.fn = "collect"
                      /\ collect.token_id = last.token_id
                      /\ collect.recipient = last.agent
                      /\ IF last.outcome = "ok"
                         THEN \* everything owed was asked for and paid out
                              /\ pos.owed0.n = 0 /\ pos.owed1.n = 0
                              /\ last.ret = <<from_18(collect.amount0),
                                              from_18(collect.amount1)>>
                         ELSE \* what was asked for is what is owed
                              /\ collect.amount0 = pos.owed0
                              /\ collect.amount1 = pos.owed1

\* half of a position removed and both tokens collected
C15_Witness ==
    /\ IsRemove(last) /\ last.outcome = "ok"
    /\ last.percentage = Num(1, 2, 0)
    /\ Len(last.sent) = 2
    /\ last.sent[2].amount0.n > 0 /\ last.sent[2].amount1.n > 0
    /\ positions[last.token_id].liquidity > 0

---------------------------------------------------------------------------
(* Properties of the price-targeting operations, under SpecPrice *)

IsIncrease(l) == l.op = "increase_price_of_token0"
IsDecrease(l) == l.op = "decrease_price_of_token0"

\* the operation got as far as computing the amount to swap
HasAmount(l) == (IsIncrease(l) \/ IsDecrease(l)) /\ "amount" \in DOMAIN l

AbsDiff(a, b) == IF a >= b THEN a - b ELSE b - a

\* C16: the counter-asset amount increase_price_of_token0 and
\* decrease_price_of_token0 compute is
\* liquidity * |target_sqrt_price - current_sqrt_price| / 2^96 truncated to an
\* integer, for every non-negative integer liquidity and pair of Q96 square-root
\* prices.
C16_AmountIsTruncatedQuotient ==
    HasAmount(last) =>
        LET product == last.liquidity * AbsDiff(last.target, last.current)
        IN  /\ last.amount * Q96 <= product
            /\ product < (last.amount + 1) * Q96

\* a price operation whose target lies against its direction
AgainstDirection(l) ==
    \/ IsIncrease(l) /\ "target" \in DOMAIN l /\ l.target < l.current
    \/ IsDecrease(l) /\ "target" \in DOMAIN l /\ l.target > l.current

\* C17: a price-targeting request whose direction contradicts the sign of
\* (target - current) fails without trading: increase_price_of_token0 with a
\* target square-root price below the current one, and decrease_price_of_token0
\* with a target above the current one, raise a precondition error and issue no
\* approve or swap transaction.
C17_WrongDirectionFails ==
    [][AgainstDirection(last') =>
          /\ last'.outcome = "raised"
          /\ last'.err = "AssertionError"
          /\ last'.sent = <<>>
          /\ UNCHANGED <<balance, allowance, positions>>]_vars

\* an agent holding both tokens asks to increase the price to a target below
\* the current price of a pool with liquidity
C17_Witness ==
    /\ IsIncrease(last) /\ AgainstDirection(last)
    /\ last.liquidity > 0
    /\ last.outcome = "raised"
    /\ balance[last.agent][0].n > 0 /\ balance[last.agent][1].n > 0

\* C18: whenever the integer amount computed by a price-targeting operation
\* truncates to zero, floor(liquidity * |target - current| / 2^96) = 0, the
\* operation returns a zero amount as a no-op rather than an error, and issues
\* no approve or swap transaction.  (Targets against the operation's direction,
\* which have to fail, are left aside.)
C18_ZeroAmountIsNoOp ==
    ((IsIncrease(last) \/ IsDecrease(last))
        /\ "target" \in DOMAIN last
        /\ ~AgainstDirection(last)
        /\ last.liquidity * AbsDiff(last.target, last.current) < Q96) =>
        /\ last.outcome = "ok"
        /\ last.ret = <<Int2Num(0), Int2Num(0)>>
        /\ last.sent = <<>>

\* the swaps an operation sent to the router
SentSwaps(l) ==
    {l.sent[i] : i \in {j \in 1..Len(l.sent) : l.sent[j].fn = "exactInputSingle"}}

\* the approvals an operation sent
SentApprovals(l) ==
    {l.sent[i] : i \in {j \in 1..Len(l.sent) : l.sent[j].fn = "approve"}}

\* C19: the direction of the sizing swap follows the sign of (target - current):
\* increase_price_of_token0 (target above current) supplies asset 1 and receives
\* asset 0, decrease_price_of_token0 (target below current) supplies asset 0 and
\* receives asset 1; neither ever swaps in the opposite direction.
C19_SwapDirection ==
    /\ IsIncrease(last) =>
          /\ \A tx \in SentSwaps(last) :
                 tx.token_in = 1 /\ tx.token_out = 0 /\ last.target > last.current
          /\ \A tx \in SentApprovals(last) : tx.token = 1
    /\ IsDecrease(last) =>
          /\ \A tx \in SentSwaps(last) :
                 tx.token_in = 0 /\ tx.token_out = 1 /\ last.target < last.current
          /\ \A tx \in SentApprovals(last) : tx.token = 0

\* an increase that swapped: asset 1 paid, asset 0 received
C19_Witness ==
    /\ IsIncrease(last) /\ last.outcome = "ok"
    /\ SentSwaps(last) # {}
    /\ last.ret[1].n > 0 /\ last.ret[2].n > 0

---------------------------------------------------------------------------
(* Properties of Lender, under SpecLend *)

\* the step is a call of the Lender method `op`
IsLendCall(op) == last = NoOp /\ last'.op = op

\* C23: withdraw_collateral with a non-zero loan fails and leaves the loan
\* information unchanged; with no loan it succeeds and returns all the
\* collateral to the caller's token balance.
C23_WithdrawOnlyWithoutLoan ==
    [][IsLendCall("withdraw_collateral") =>
          LET a == last'.agent
          IN  IF lending.debt[a].n # 0
              THEN /\ last'.outcome = "raised"
                   /\ LedgerLoanInformation(lending', a) = LedgerLoanInformation(lending, a)
                   /\ lending'.cbal[a] = lending.cbal[a]
              ELSE /\ last'.outcome = "ok"
                   /\ lending'.collateral[a] = Wei(0)
                   /\ lending'.debt[a] = Wei(0)
                   /\ lending'.cbal[a] = NumAdd(lending.cbal[a], lending.collateral[a])]_vars

\* a withdrawal refused because of an outstanding loan
C23_Witness ==
    /\ last.op = "withdraw_collateral"
    /\ last.outcome = "raised"
    /\ lending.debt[last.agent].n > 0
    /\ lending.collateral[last.agent].n > 0

\* a withdrawal that returned collateral
C23_WitnessReturned ==
    /\ last.op = "withdraw_collateral"
    /\ last.outcome = "ok"
    /\ lending.cbal[last.agent].n > 0
    /\ lending.collateral[last.agent].n = 0


\* the current collateral price: the forced price while one is in use,
\* otherwise the pool's price of the collateral, in 18 decimals
CollateralPriceNow ==
    IF lender.testing_price_is_used
    THEN lender.testing_price
    ELSE IF lender.which_is_collateral = 0
         THEN as_18(Num(Q96 * Q96, slot0 * slot0, 0))
         ELSE as_18(Num(slot0 * slot0, Q96 * Q96, 0))

HealthyNow(b) ==
    LedgerHealthy(lending.collateral[b], lending.debt[b], CollateralPriceNow)

\* C24: liquidate_loan fails when the loan is healthy at the current
\* collateral price, leaving the loan as it is; it succeeds only when the
\* price has made the loan under-collateralized, and then the borrower's
\* collateral and debt are cleared to zero.
C24_LiquidateOnlyUnhealthy ==
    [][IsLendCall("liquidate_loan") =>
          LET b == last'.borrower
          IN  /\ HealthyNow(b) =>
                    /\ last'.outcome = "raised"
                    /\ lending'.collateral[b] = lending.collateral[b]
                    /\ lending'.debt[b] = lending.debt[b]
              /\ last'.outcome = "ok" =>
                    /\ ~HealthyNow(b)
                    /\ lending'.collateral[b] = Wei(0)
                    /\ lending'.debt[b] = Wei(0)]_vars

\* a loan that was liquidated: it had debt and collateral, and both are gone
C24_Witness ==
    /\ last.op = "liquidate_loan"
    /\ last.outcome = "ok"
    /\ last.info[1].n > 0 /\ last.info[2].n > 0 /\ ~last.info[3]
    /\ lending.debt[last.borrower].n = 0
    /\ lending.collateral[last.borrower].n = 0

\* a liquidation refused because the loan is healthy
C24_WitnessHealthy ==
    /\ last.op = "liquidate_loan"
    /\ last.outcome = "raised"
    /\ last.info[2].n > 0 /\ last.info[3]


\* the pool's price of the collateral, in 18 decimals
PoolCollateralPrice ==
    IF lender.which_is_collateral = 0
    THEN as_18(Num(Q96 * Q96, slot0 * slot0, 0))
    ELSE as_18(Num(slot0 * slot0, Q96 * Q96, 0))

\* C25: clear_price_for_testing, called after set_price_for_testing, returns
\* normally and switches the forced price off, so that the next price update
\* sends the pool's price.
C25_ClearRestoresPoolPrice ==
    [][(IsLendCall("clear_price_for_testing") /\ lender.testing_price_is_used) =>
          /\ last'.outcome = "ok"
          /\ ~lender'.testing_price_is_used
          /\ update_collateral_price(lender', slot0') = PoolCollateralPrice']_vars


\* the methods that refresh the price, with the contract function each calls
PriceRefreshing ==
    [borrow |-> "borrow", loan_information |-> "loanInformation",
     collateral_required |-> "collateralNeeded",
     get_collateral_price |-> "getCurrentCollateralPrice"]

\* C27: borrow, loan_information, collateral_required and get_collateral_price
\* each send setPrice to the lending contract before their own contract
\* operation, with the price derived from the pool's current square-root
\* price (sqrtp_to_price, inverted when token 0 is the collateral) or, while a
\* forced price is in use, with the forced price.
C27_PriceRefreshedFirst ==
    last.op \in DOMAIN PriceRefreshing =>
        /\ Len(last.sent) = 2
        /\ last.sent[1] = SetPriceTx(CollateralPriceNow)
        /\ last.sent[2].fn = PriceRefreshing[last.op]
        /\ lending.price = CollateralPriceNow

\* a loan taken at the pool's price, with no forced price in use
C27_Witness ==
    /\ last.op = "borrow"
    /\ last.outcome = "ok"
    /\ ~lender.testing_price_is_used
    /\ last.sent[1].fn = "setPrice"
    /\ last.sent[1].price.n > 0
    /\ last.sent[2].fn = "borrow"


\* C29: is_loan_healthy and the health flag of loan_information agree for
\* every borrower in every reachable state.
C29_HealthViewsAgree ==
    \A b \in Borrowers : is_loan_healthy(b) = loan_information(b)[3]

\* two integers of the same value, whatever their decimal exponents
SameAmount(x, y) ==
    \/ x.n = 0 /\ y.n = 0
    \/ x.d = 1 /\ y.d = 1 /\ x.e = y.e /\ x.n = y.n

\* C30: liquidate_loan approves the lending contract for exactly the
\* borrower's outstanding debt, in 18-decimal units, and never more.
C30_ApprovesExactlyTheDebt ==
    last.op = "liquidate_loan" =>
        /\ last.sent[2].fn = "approve"
        /\ last.sent[2].caller = last.liquidator
        /\ SameAmount(last.sent[2].amount, last.info[2])

---------------------------------------------------------------------------
(* Properties of the swaps, under SpecSwap *)

SwapTokenIn == [swap_0_for_1 |-> 0, swap_1_for_0 |-> 1]

\* C28: a swap is guarded by the agent's balance: swap_0_for_1 / swap_1_for_0
\* fail when the agent's balance of the input token is less than the amount,
\* and then no approve and no swap transaction is issued, leaving balances,
\* allowances and the pool price unchanged; when the swap goes through, the
\* router was approved for amount_in before the swap was sent.
C28_SwapGuardedByBalance ==
    [][(last = NoOp /\ last'.op \in DOMAIN SwapTokenIn) =>
          LET a == last'.agent
              t == SwapTokenIn[last'.op]
              amount_in == as_18(last'.amount)
          IN  /\ NumLess(from_18(balance[a][t]), last'.amount) =>
                    /\ last'.outcome = "raised"
                    /\ last'.sent = <<>>
                    /\ balance' = balance
                    /\ allowance' = allowance
                    /\ slot0' = slot0
              /\ last'.outcome = "ok" =>
                    /\ Len(last'.sent) = 2
                    /\ last'.sent[1] = RouterApproveTx(a, t, amount_in)
                    /\ last'.sent[2].fn = "exactInputSingle"
                    /\ last'.sent[2].amount_in = amount_in]_vars

---------------------------------------------------------------------------
(* Properties of mint_tokens and burn_tokens, under SpecTok *)

\* what a burn of `asked` whole tokens must leave of the balance `bal`
AfterBurn(asked, bal) ==
    IF asked > 0 /\ asked <= bal.n THEN Wei(bal.n - asked) ELSE bal

\* C26: burn_tokens treats each token independently and never overdraws: of
\* each token it burns exactly the amount asked when 0 < amount <= balance,
\* and otherwise leaves that balance unchanged, without raising; after any
\* sequence of mint_tokens and burn_tokens every balance is >= 0; and neither
\* operation changes the pool's reserves or another agent's balance.
C26_BurnNeverOverdraws ==
    [][(last = NoOp /\ last'.op \in {"mint_tokens", "burn_tokens"}) =>
          LET a == last'.agent
          IN  /\ last'.op = "burn_tokens" =>
                    /\ last'.outcome = "ok"
                    /\ balance'[a][0] = AfterBurn(last'.amt_t0, balance[a][0])
                    /\ balance'[a][1] = AfterBurn(last'.amt_t1, balance[a][1])
              /\ \A other \in DOMAIN balance \ {a} : balance'[other] = balance[other]
              /\ \A w \in DOMAIN balance, t \in Tokens : balance'[w][t].n >= 0]_vars

\* a burn that took all of one token and, asked for more than the balance of
\* the other, left that one alone, while another wallet holds tokens
C26_Witness ==
    /\ last.op = "burn_tokens"
    /\ last.amt_t0 = 1 /\ last.amt_t1 = 2
    /\ Len(last.sent) = 1
    /\ balance[last.agent][0].n = 0
    /\ balance[last.agent][1].n = 1
    /\ \E other \in Wallets \ {last.agent} : balance[other][0].n > 0

=============================================================================
